---- MODULE Spec2Model ----
(***************************************************************************)
(* Model of the component-based composition pipeline of the reel composer: *)
(* the ComponentRegistry, renderComponentBasedHTML (the assembler that     *)
(* merges one rendered component per selection into a single document) and *)
(* the scene manager script that the merged document runs in the iframe,   *)
(* together with the ReelPlayer that hosts the document, the database     *)
(* module that stores generated content, the App component's handlers,     *)
(* mergeSegmentHTMLs with the document it returns, and the video export.   *)
(* Each part has a specification of its own over the same variables; the   *)
(* variables of the other parts stay at their idle values.                 *)
(*                                                                         *)
(* Times are whole time units.  Strings produced by template literals are  *)
(* modelled by the values interpolated into them: the id "s3" is the pair  *)
(* <<"s", 3>>, the function name "animateS3" is <<"animateS", 3>>, a       *)
(* markup fragment is the record of its class names and its text node.     *)
(***************************************************************************)
EXTENDS Integers, Sequences, FiniteSets, TLC

VARIABLES
    components,      \* ComponentRegistry.components (a Map, in insertion order)
    pc,              \* "registry" | "rendered" | "parsed" | "ready"
    selections,      \* the selections argument of the render call
    segments,        \* the segments argument of the render call
    doc,             \* the document renderComponentBasedHTML returned
    renderCalls,     \* the component.render calls the assembler made
    currentScene,    \* the runtime's currentScene (<<>> is null)
    sceneTimelines,  \* the runtime's sceneTimelines object
    style,           \* per scene container: inline display, opacity, class active
    factoryCalls,    \* how often each emitted factory body has run
    faulty,          \* the factory bodies that threw when they ran
    listeners,       \* the event types window has a listener for
    timerPending,    \* the startup setTimeout has not fired yet
    last,            \* the last message delivered to the document
    video,           \* ReelPlayer: the video element (currentTime, paused)
    audio,           \* ReelPlayer: the background audio element
    bgMusicUrl,      \* ReelPlayer: the bgMusicUrl prop is set
    events,          \* media events queued on the video element
    iframeKey,       \* ReelPlayer: the iframeKey state
    loadPending,     \* the iframe's load event has not fired for its document
    channel,         \* timeupdate messages posted to the iframe, not yet dispatched
    hostLast,        \* what the last ReelPlayer handler did
    staleApplied,    \* the listener handled a message after a newer one
    rows,            \* database: the generated_content table
    saves,           \* database: the saveGeneratedContent calls and their progress
    clock,           \* database: CURRENT_TIMESTAMP, in seconds
    got,             \* database: what the last getGeneratedContent call returned
    appState,        \* App: the appState state
    apiKey,          \* App: the apiKey state is not blank
    srtData,         \* App: the srtData state (the endTime of each item)
    generatedContent, \* App: the generatedContent state
    pendingContent,  \* App: the pendingContent state
    showReplaceDialog, \* App: the showReplaceDialog state
    isManualModeRef, \* App: isManualModeRef.current
    error,           \* App: the error state
    endScreenStartTime, \* App: the endScreenStartTime state
    effectDue,       \* App: a dependency of the end-screen effect has changed
    asyncCalls,      \* App: the calls of async handlers and their progress
    persisted,       \* App: the calls made to the persistence client
    overtaken,       \* the handleEnterStudio calls in flight when manual mode was entered
    confirmed,       \* the calls whose content handleConfirmReplace has installed
    registrations,   \* the components handed to ComponentRegistry.register, in call order
    subject,         \* the library component whose render is called
    argument,        \* the params object and the duration handed to render
    returned,        \* what the successive render calls returned
    styles,          \* mergeSegmentHTMLs: the style text extracted from a segment
    namespacedStyles, \* mergeSegmentHTMLs: the style text after namespacing
    merged,          \* the document mergeSegmentHTMLs returned
    mergedRun,       \* the merged document's runtime: scene shown, displays, timelines
    heard,           \* the last message delivered to the merged document
    exportPc,        \* exportCompositeVideo: the await the call is suspended at
    recorder,        \* exportCompositeVideo: the MediaRecorder
    audioCtx,        \* exportCompositeVideo: the AudioContext
    exportClock,     \* exportCompositeVideo: the video element being recorded
    exported         \* exportCompositeVideo: progress, download and the promise

renderVars == <<selections, segments, doc, renderCalls>>
runtimeVars == <<currentScene, sceneTimelines, style, factoryCalls, faulty,
                 listeners, timerPending, last>>
playerVars == <<video, audio, bgMusicUrl, events, iframeKey, loadPending, channel,
                hostLast, staleApplied>>
dbVars == <<rows, saves, clock, got>>
appVars == <<appState, apiKey, srtData, generatedContent, pendingContent,
             showReplaceDialog, isManualModeRef, error, endScreenStartTime, effectDue,
             asyncCalls, persisted, overtaken, confirmed>>
registryUnit == <<registrations>>
libraryUnit == <<subject, argument, returned>>
scopeUnit == <<styles, namespacedStyles>>
mergedUnit == <<merged, mergedRun, heard>>
exportUnit == <<exportPc, recorder, audioCtx, exportClock, exported>>
unitVars == <<registryUnit, libraryUnit, scopeUnit, mergedUnit, exportUnit>>
sessionVars == <<appVars, unitVars>>

vars == <<components, pc, renderVars, runtimeVars, playerVars, dbVars, sessionVars>>

(***************************************************************************)
(* Bounds of the model.                                                    *)
(***************************************************************************)
MaxTime == 3          \* times of the loaded document range over 0..MaxTime
MaxRenderTime == 1    \* times of SpecRender's segments range over 0..MaxRenderTime
MaxSeg == 2           \* segment ids range over 1..MaxSeg
MaxSel == 2           \* a selections list has at most MaxSel entries

Times == 0..MaxTime
RenderTimes == 0..MaxRenderTime
SegIds == 1..MaxSeg
Texts == {"", "Hi"}
ComponentIds == {"text_display", "emphasis", "does_not_exist"}

Min(S) == CHOOSE x \in S : \A y \in S : x <= y

(***************************************************************************)
(* JavaScript objects used as parameter bags: functions from keys to       *)
(* strings.  A key that is absent reads as undefined.                      *)
(***************************************************************************)
NoParams == [k \in {} |-> ""]

\* { ...a, ...b }
Spread(a, b) ==
    [k \in (DOMAIN a) \cup (DOMAIN b) |-> IF k \in DOMAIN b THEN b[k] ELSE a[k]]

\* p[k] || d : undefined and the empty string are falsy
OrDefault(p, k, d) == IF k \in DOMAIN p /\ p[k] # "" THEN p[k] ELSE d

\* const { k = d } = p : only undefined takes the default
Destructure(p, k, d) == IF k \in DOMAIN p THEN p[k] ELSE d

\* `${p.k}` of a template literal
Interpolate(p, k) == IF k \in DOMAIN p THEN p[k] ELSE "undefined"

(***************************************************************************)
(* The built-in components.                                                *)
(***************************************************************************)
TextDisplay == [id |-> "text_display", name |-> "Text Display", impl |-> "TextDisplay"]
EmphasisComponent == [id |-> "emphasis", name |-> "Emphasis", impl |-> "Emphasis"]

Library == {TextDisplay, EmphasisComponent}

\* paramsSchema of a library component: each declared key with its default
paramsSchema(componentId) ==
    IF componentId = "text_display"
    THEN [text |-> "Sample Text", fontSize |-> "2rem", color |-> "#ffffff",
          bgColor |-> "#333333"]
    ELSE [text |-> "Key Point", color |-> "#ffd700", glowColor |-> "#ffd700",
          size |-> "large"]

\* components produced by the generator: one under an id of the library, one
\* under an id of its own
GeneratedEmphasis == [id |-> "emphasis", name |-> "Emphasis", impl |-> "Generated"]
GeneratedCustom == [id |-> "custom", name |-> "Custom", impl |-> "Generated"]

Registrable == Library \cup {GeneratedEmphasis, GeneratedCustom}
RegistrableIds == {c.id : c \in Registrable}

TextDisplay_render(params, duration) ==
    LET text == OrDefault(params, "text", "Sample Text")
        fontSize == OrDefault(params, "fontSize", "2rem")
        color == OrDefault(params, "color", "#ffffff")
        bgColor == OrDefault(params, "bgColor", "#333333")
    IN [html |-> [classes |-> {"text-display-container", "text-display-content",
                               "text-display-text"},
                  text |-> text],
        css |-> [selectors |-> {"text-display-container", "text-display-content",
                                "text-display-text"},
                 fontSize |-> fontSize, color |-> color, background |-> bgColor],
        script |-> [targets |-> {"text-display-text"}, paused |-> FALSE,
                    duration |-> duration, glow |-> FALSE]]

Emphasis_render(params, duration) ==
    LET text == Interpolate(params, "text")
        color == Destructure(params, "color", "#ffd700")
        glowColor == Destructure(params, "glowColor", "#ffd700")
        size == Destructure(params, "size", "large")
        fontSize == CASE size = "small" -> "1.5em"
                      [] size = "medium" -> "1.8em"
                      [] OTHER -> "2.2em"
    IN [html |-> [classes |-> {"emphasis-wrapper", "emphasis-content", "emphasis-text"},
                  text |-> text],
        css |-> [selectors |-> {"emphasis-wrapper", "emphasis-content", "emphasis-text"},
                 fontSize |-> fontSize, color |-> color, background |-> glowColor],
        script |-> [targets |-> {"emphasis-text"}, paused |-> TRUE,
                    duration |-> duration, glow |-> duration > 2]]

\* a render that writes the schema defaults into the object it was given
paramsAfterRenderFilled(component, params) == Spread(paramsSchema(component.id), params)

\* the params object after render returned: render only reads it
paramsAfterRender(component, params) == params

render(component, params, duration) ==
    IF component.impl = "TextDisplay"
    THEN TextDisplay_render(params, duration)
    ELSE Emphasis_render(params, duration)

(***************************************************************************)
(* ComponentRegistry: a Map from id to component.  The model keeps the     *)
(* Map's entries as a sequence in insertion order; set() on a key that is  *)
(* present replaces the value in place.                                    *)
(***************************************************************************)
\* a register that leaves an id that is present alone
registerKeepingFirst(reg, component) ==
    IF \E i \in 1..Len(reg) : reg[i].id = component.id THEN reg
    ELSE Append(reg, component)

\* a register that deletes the id before it sets it
registerMovingToEnd(reg, component) ==
    Append(SelectSeq(reg, LAMBDA c : c.id # component.id), component)

\* this.components.set(component.id, component)
register(reg, component) ==
    IF \E i \in 1..Len(reg) : reg[i].id = component.id
    THEN [i \in 1..Len(reg) |-> IF reg[i].id = component.id THEN component ELSE reg[i]]
    ELSE Append(reg, component)

\* <<>> is undefined, <<c>> is the component c
get(reg, id) ==
    LET idx == {i \in 1..Len(reg) : reg[i].id = id}
    IN IF idx = {} THEN <<>> ELSE <<reg[Min(idx)]>>

getAll(reg) == reg

(***************************************************************************)
(* renderComponentBasedHTML(selections, segments, componentSettings).      *)
(***************************************************************************)
SceneId(segId) == <<"s", segId>>
FnName(segId) == <<"animateS", segId>>

\* segments.find(s => s.id === id): <<>> is undefined
find(segs, id) ==
    LET idx == {i \in 1..Len(segs) : segs[i].id = id}
    IN IF idx = {} THEN <<>> ELSE <<segs[Min(idx)]>>

NoSettings == [c \in {} |-> NoParams]

EmptyAcc == [allHTML |-> <<>>, allCSS |-> <<>>, allScripts |-> <<>>,
             sceneData |-> <<>>, calls |-> <<>>]

\* the duration handed to component.render
Duration(segment) == segment.endTime - segment.startTime

\* a resolution that forgets the text_display fallback
resolveWithoutFallback(reg, componentId) == get(reg, componentId)

\* the component a selection is rendered with: its own, else text_display
resolve(reg, componentId) ==
    LET found == get(reg, componentId)
    IN IF found # <<>> THEN found ELSE get(reg, "text_display")

\* the body of selections.forEach for the k-th selection
renderSelection(acc, k, selection, reg, segs, componentSettings) ==
    LET resolved == resolve(reg, selection.componentId)
        segmentOpt == find(segs, selection.segmentId)
    IN IF resolved = <<>> THEN acc
       ELSE IF segmentOpt = <<>> THEN acc
       ELSE
         LET component == resolved[1]
             segment == segmentOpt[1]
             duration == Duration(segment)
             customSettings == IF component.id \in DOMAIN componentSettings
                               THEN componentSettings[component.id] ELSE NoParams
             mergedParams ==
                 Spread(Spread(customSettings, selection.params),
                        IF selection.componentId # component.id
                        THEN [text |-> segment.text] ELSE NoParams)
             out == render(component, mergedParams, duration)
         IN [allHTML |-> Append(acc.allHTML,
                 [id |-> SceneId(segment.id), start |-> segment.startTime,
                  end |-> segment.endTime, html |-> out.html, selection |-> k]),
             allCSS |-> Append(acc.allCSS,
                 [scope |-> SceneId(segment.id), css |-> out.css]),
             allScripts |-> Append(acc.allScripts,
                 [name |-> FnName(segment.id), script |-> out.script]),
             sceneData |-> Append(acc.sceneData,
                 [id |-> SceneId(segment.id), start |-> segment.startTime,
                  end |-> segment.endTime]),
             calls |-> Append(acc.calls,
                 [component |-> component.id, params |-> mergedParams,
                  duration |-> duration])]

RECURSIVE forEachSelection(_, _, _, _, _, _)
forEachSelection(acc, k, sels, reg, segs, componentSettings) ==
    IF k > Len(sels) THEN acc
    ELSE forEachSelection(renderSelection(acc, k, sels[k], reg, segs, componentSettings),
                          k + 1, sels, reg, segs, componentSettings)

\* the lines of the "Initialize all timelines" block: selections.map(...).join
RECURSIVE initLines(_, _, _)
initLines(k, sels, segs) ==
    IF k > Len(sels) THEN <<>>
    ELSE LET segmentOpt == find(segs, sels[k].segmentId)
             rest == initLines(k + 1, sels, segs)
         IN IF segmentOpt = <<>> THEN rest
            ELSE <<[key |-> SceneId(segmentOpt[1].id),
                    fn |-> FnName(segmentOpt[1].id)]>> \o rest

renderResult(sels, segs, reg, componentSettings) ==
    forEachSelection(EmptyAcc, 1, sels, reg, segs, componentSettings)

renderComponentBasedHTML(sels, segs, reg, componentSettings) ==
    LET acc == renderResult(sels, segs, reg, componentSettings)
    IN [containers |-> acc.allHTML, styles |-> acc.allCSS,
        factories |-> acc.allScripts, scenes |-> acc.sceneData,
        initCalls |-> initLines(1, sels, segs)]

NoDoc == [containers |-> <<>>, styles |-> <<>>, factories |-> <<>>,
          scenes |-> <<>>, initCalls |-> <<>>]

(***************************************************************************)
(* Inputs.                                                                 *)
(***************************************************************************)
SegmentRecs(times, texts) ==
    [id : SegIds, startTime : times, endTime : times, text : texts]

\* segment lists carry unique ids, in increasing order
SegmentLists(times, texts) ==
    {s \in UNION {[1..n -> SegmentRecs(times, texts)] : n \in 0..MaxSeg} :
        \A i, j \in 1..Len(s) : i < j => s[i].id < s[j].id}

SelectionRecs(paramChoices) ==
    [segmentId : SegIds, componentId : ComponentIds, params : paramChoices]

SelectionLists(paramChoices) ==
    UNION {[1..n -> SelectionRecs(paramChoices)] : n \in 0..MaxSel}

ParamChoices == {NoParams, [text |-> "P"]}
SettingsChoices == {NoSettings}

(***************************************************************************)
(* The runtime of a document that has not been loaded.                     *)
(***************************************************************************)
NoMessage == [t |-> -1, handled |-> FALSE, match |-> 0, before |-> <<>>,
              seek |-> <<>>, threw |-> FALSE, prevFailed |-> FALSE]

RuntimeIdle ==
    /\ currentScene = <<>>
    /\ sceneTimelines = [id \in {} |-> 0]
    /\ style = <<>>
    /\ factoryCalls = <<>>
    /\ faulty = {}
    /\ listeners = {}
    /\ timerPending = FALSE
    /\ last = NoMessage

(***************************************************************************)
(* The player and the database when no player is mounted and no save runs. *)
(***************************************************************************)
NoHandler == [handler |-> "none", time |-> 0, paused |-> TRUE, posted |-> <<>>,
              audioPlaying |-> FALSE, resynced |-> FALSE, sceneBefore |-> <<>>]

PlayerIdle ==
    /\ video = [currentTime |-> 0, paused |-> TRUE]
    /\ audio = [currentTime |-> 0, paused |-> TRUE]
    /\ bgMusicUrl = FALSE
    /\ events = {}
    /\ iframeKey = 0
    /\ loadPending = FALSE
    /\ channel = <<>>
    /\ hostLast = NoHandler
    /\ staleApplied = FALSE

DbIdle ==
    /\ rows = <<>>
    /\ saves = <<>>
    /\ clock = 0
    /\ got = <<>>

(***************************************************************************)
(* The App component before it is mounted.                                 *)
(***************************************************************************)
Undefined == -1

Null == [kind |-> "null", by |-> 0]

AppIdle ==
    /\ appState = "WELCOME"
    /\ apiKey = FALSE
    /\ srtData = <<>>
    /\ generatedContent = Null
    /\ pendingContent = Null
    /\ showReplaceDialog = FALSE
    /\ isManualModeRef = FALSE
    /\ error = "null"
    /\ endScreenStartTime = Undefined
    /\ effectDue = FALSE
    /\ asyncCalls = <<>>
    /\ persisted = {}
    /\ overtaken = {}
    /\ confirmed = {}

\* the units that are exercised on their own, when they are not
RegistryIdle == registrations = <<>>
LibraryIdle == subject = <<>> /\ argument = <<>> /\ returned = <<>>
ScopeIdle == styles = <<>> /\ namespacedStyles = <<>>
MergedIdle == merged = <<>> /\ mergedRun = <<>> /\ heard = <<>>

ExportIdle ==
    /\ exportPc = "idle"
    /\ recorder = <<>>
    /\ audioCtx = "null"
    /\ exportClock = <<>>
    /\ exported = <<>>

UnitIdle == RegistryIdle /\ LibraryIdle /\ ScopeIdle /\ MergedIdle /\ ExportIdle

SessionIdle == AppIdle /\ UnitIdle

(***************************************************************************)
(* Specification SpecRender: the registry is filled by register calls and  *)
(* renderComponentBasedHTML is applied once to bounded inputs.             *)
(***************************************************************************)
InitRender ==
    /\ components = <<>>
    /\ pc = "registry"
    /\ selections = <<>>
    /\ segments = <<>>
    /\ doc = NoDoc
    /\ renderCalls = <<>>
    /\ RuntimeIdle
    /\ PlayerIdle
    /\ DbIdle
    /\ SessionIdle

Register(component) ==
    /\ pc = "registry"
    /\ components' = register(components, component)
    /\ UNCHANGED <<pc, renderVars, runtimeVars, playerVars, dbVars, sessionVars>>

Render(sels, segs, componentSettings) ==
    /\ pc = "registry"
    /\ pc' = "rendered"
    /\ selections' = sels
    /\ segments' = segs
    /\ doc' = renderComponentBasedHTML(sels, segs, components, componentSettings)
    /\ renderCalls' = renderResult(sels, segs, components, componentSettings).calls
    /\ UNCHANGED <<components, runtimeVars, playerVars, dbVars, sessionVars>>

RenderSelections == SelectionLists(ParamChoices)
RenderSegments == SegmentLists(RenderTimes, Texts)

NextRender ==
    \/ \E component \in Library : Register(component)
    \/ /\ pc = "registry"
       /\ \E sels \in RenderSelections, segs \in RenderSegments,
             componentSettings \in SettingsChoices :
               Render(sels, segs, componentSettings)

SpecRender == InitRender /\ [][NextRender]_vars

(***************************************************************************)
(* The scene manager: the inline script of the merged document.            *)
(***************************************************************************)
Hidden == [display |-> "none", opacity |-> "0", active |-> FALSE]
Shown == [display |-> "block", opacity |-> "1", active |-> TRUE]
Unstyled == [display |-> "", opacity |-> "", active |-> FALSE]

\* a scene container is visible when its inline display shows it
Visible(st) == {c \in DOMAIN st : st[c].display = "block"}

\* document.getElementById(id): the first container with that id, 0 is null
getElementById(d, id) ==
    LET idx == {c \in 1..Len(d.containers) : d.containers[c].id = id}
    IN IF idx = {} THEN 0 ELSE Min(idx)

\* the function a name is bound to: of several declarations of one name in
\* a script the last one wins; 0 when the name is not declared
Declared(d, name) ==
    LET idx == {f \in 1..Len(d.factories) : d.factories[f].name = name}
    IN IF idx = {} THEN 0 ELSE CHOOSE f \in idx : \A g \in idx : g <= f

\* the elements a gsap tween with a selector string animates:
\* document.querySelectorAll over the whole document
querySelectorAll(d, classes) ==
    {e \in (1..Len(d.containers)) \X classes :
        e[2] \in d.containers[e[1]].html.classes}

\* the timeline the body of factory f builds and returns
Timeline(d, f) ==
    [factory |-> f,
     targets |-> querySelectorAll(d, d.factories[f].script.targets),
     paused |-> d.factories[f].script.paused,
     time |-> 0]

NoTimelines == [id \in {} |-> 0]

\* the try block of "Initialize all timelines": the statements run in order
\* and the first exception leaves the block
RECURSIVE initTimelines(_, _, _, _, _)
initTimelines(d, throwing, j, timelines, calls) ==
    IF j > Len(d.initCalls)
    THEN [timelines |-> timelines, calls |-> calls, threw |-> {}]
    ELSE LET f == Declared(d, d.initCalls[j].fn)
             key == d.initCalls[j].key
         IN IF f = 0
            THEN [timelines |-> timelines, calls |-> calls, threw |-> {}]
            ELSE IF f \in throwing
            THEN [timelines |-> timelines, calls |-> [calls EXCEPT ![f] = @ + 1],
                  threw |-> {f}]
            ELSE initTimelines(d, throwing, j + 1,
                    [id \in (DOMAIN timelines) \cup {key} |->
                        IF id = key THEN Timeline(d, f) ELSE timelines[id]],
                    [calls EXCEPT ![f] = @ + 1])

\* a showScene that leaves the other containers as they are
showSceneKeeping(cur, st, d, sceneId) ==
    IF cur = sceneId THEN [currentScene |-> cur, style |-> st]
    ELSE LET sceneEl == getElementById(d, sceneId)
         IN IF sceneEl # 0
            THEN [currentScene |-> sceneId, style |-> [st EXCEPT ![sceneEl] = Shown]]
            ELSE [currentScene |-> cur, style |-> st]

showScene(cur, st, d, sceneId) ==
    IF cur = sceneId THEN [currentScene |-> cur, style |-> st]
    ELSE LET hidden == [c \in DOMAIN st |-> Hidden]
             sceneEl == getElementById(d, sceneId)
         IN IF sceneEl # 0
            THEN [currentScene |-> sceneId,
                  style |-> [hidden EXCEPT ![sceneEl] = Shown]]
            ELSE [currentScene |-> cur, style |-> hidden]

\* a range test that is closed at the end
InRangeClosed(scene, time) == time >= scene.start /\ time <= scene.end

\* time >= scene.start && time < scene.end
InRange(scene, time) == time >= scene.start /\ time < scene.end

\* a scan that lets the last matching scene win
LastMatch(scenes, time) ==
    LET idx == {i \in 1..Len(scenes) : InRange(scenes[i], time)}
    IN IF idx = {} THEN 0 ELSE CHOOSE i \in idx : \A j \in idx : j <= i

\* a scan that falls back to the first scene when no scene matches
FirstMatchOrFirst(scenes, time) ==
    LET idx == {i \in 1..Len(scenes) : InRange(scenes[i], time)}
    IN IF idx # {} THEN Min(idx) ELSE IF Len(scenes) > 0 THEN 1 ELSE 0

\* for (const scene of scenes) { if (...) { ...; break } }: 0 when no scene matches
FirstMatch(scenes, time) ==
    LET idx == {i \in 1..Len(scenes) : InRange(scenes[i], time)}
    IN IF idx = {} THEN 0 ELSE Min(idx)

\* a seek position that is not made relative to the scene
relativeTimeAbsolute(scene, time) == time

\* const relativeTime = time - scene.start
relativeTime(scene, time) == time - scene.start

\* a dispatch that drops the listeners once one of them has thrown
AfterDispatchDropping(ls, threw) == IF threw THEN {} ELSE ls

\* a listener that throws is reported by the event loop and stays registered
AfterDispatch(ls, threw) == ls

(***************************************************************************)
(* Specification Spec: a document composed from bounded inputs is loaded   *)
(* in the iframe, its script runs and timeupdate messages arrive.          *)
(***************************************************************************)
RuntimeRegistries == {<<TextDisplay, EmphasisComponent>>, <<EmphasisComponent>>}
RuntimeSelections ==
    {s \in SelectionLists({NoParams}) :
        \A k \in 1..Len(s) : s[k].componentId \in {"text_display", "emphasis"}}
\* segments of a loaded document: possibly empty, not reversed
RuntimeSegments ==
    {s \in SegmentLists(Times, {"Hi"}) :
        \A i \in 1..Len(s) : s[i].startTime <= s[i].endTime}

\* every segment of the list is chosen by some selection
AllSelected(sels, segs) ==
    \A i \in 1..Len(segs) : \E k \in 1..Len(sels) : sels[k].segmentId = segs[i].id

Init ==
    /\ components \in RuntimeRegistries
    /\ selections \in RuntimeSelections
    /\ segments \in RuntimeSegments
    /\ AllSelected(selections, segments)
    /\ doc = renderComponentBasedHTML(selections, segments, components, NoSettings)
    /\ renderCalls = renderResult(selections, segments, components, NoSettings).calls
    /\ pc = "parsed"
    /\ currentScene = <<>>
    /\ sceneTimelines = NoTimelines
    /\ style = [c \in 1..Len(doc.containers) |-> Unstyled]
    /\ factoryCalls = [f \in 1..Len(doc.factories) |-> 0]
    /\ faulty = {}
    /\ listeners = {}
    /\ timerPending = FALSE
    /\ last = NoMessage
    /\ PlayerIdle
    /\ DbIdle
    /\ SessionIdle

\* the statements of the inline script, top to bottom
scriptBody(throwing) ==
    /\ pc' = "ready"
    /\ LET r == initTimelines(doc, throwing, 1, NoTimelines, factoryCalls)
       IN /\ sceneTimelines' = r.timelines
          /\ factoryCalls' = r.calls
          /\ faulty' = r.threw
    /\ listeners' = listeners \cup {"message"}
    /\ timerPending' = TRUE
    /\ UNCHANGED <<currentScene, style, last>>

\* the inline script runs once
RunScript(throwing) ==
    /\ pc = "parsed"
    /\ scriptBody(throwing)
    /\ UNCHANGED <<components, renderVars, playerVars, dbVars, sessionVars>>

\* the message listener on { type: 'timeupdate', time }; a message that
\* arrives before the listener is registered is dropped
onMessage(time, seekThrows) ==
    /\ LET handled == "message" \in listeners
           m == IF handled THEN FirstMatch(doc.scenes, time) ELSE 0
           prevFailed == last.handled /\ last.match # 0 /\ (last.seek = <<>> \/ last.threw)
       IN IF m = 0
          THEN /\ ~seekThrows
               /\ last' = [t |-> time, handled |-> handled, match |-> 0,
                           before |-> currentScene, seek |-> <<>>, threw |-> FALSE,
                           prevFailed |-> prevFailed]
               /\ UNCHANGED <<currentScene, style, sceneTimelines, listeners>>
          ELSE LET scene == doc.scenes[m]
                   shown == showScene(currentScene, style, doc, scene.id)
                   hasTimeline == scene.id \in DOMAIN sceneTimelines
               IN /\ seekThrows => hasTimeline
                  /\ currentScene' = shown.currentScene
                  /\ style' = shown.style
                  /\ sceneTimelines' =
                        IF hasTimeline /\ ~seekThrows
                        THEN [sceneTimelines EXCEPT
                                 ![scene.id].time = relativeTime(scene, time)]
                        ELSE sceneTimelines
                  /\ listeners' = AfterDispatch(listeners, seekThrows)
                  /\ last' = [t |-> time, handled |-> TRUE, match |-> m,
                              before |-> currentScene,
                              seek |-> IF hasTimeline
                                       THEN <<scene.id, relativeTime(scene, time)>>
                                       ELSE <<>>,
                              threw |-> seekThrows,
                              prevFailed |-> prevFailed]
    /\ UNCHANGED <<pc, factoryCalls, faulty, timerPending>>

\* window receives { type: 'timeupdate', time }
TimeUpdate(time, seekThrows) ==
    /\ pc \in {"parsed", "ready"}
    /\ onMessage(time, seekThrows)
    /\ UNCHANGED <<components, renderVars, playerVars, dbVars, sessionVars>>

\* the setTimeout(..., 1000) callback
onTimeout ==
    /\ timerPending' = FALSE
    /\ LET shown == IF currentScene = <<>> /\ Len(doc.scenes) > 0
                    THEN showScene(currentScene, style, doc, doc.scenes[1].id)
                    ELSE [currentScene |-> currentScene, style |-> style]
       IN /\ currentScene' = shown.currentScene
          /\ style' = shown.style
    /\ UNCHANGED <<pc, sceneTimelines, factoryCalls, faulty, listeners, last>>

\* the startup timer fires one second after the script ran
FallbackTimer ==
    /\ pc = "ready"
    /\ timerPending
    /\ onTimeout
    /\ UNCHANGED <<components, renderVars, playerVars, dbVars, sessionVars>>

Next ==
    \/ /\ pc = "parsed"
       /\ \E throwing \in SUBSET (1..Len(doc.factories)) : RunScript(throwing)
    \/ \E time \in Times, seekThrows \in BOOLEAN : TimeUpdate(time, seekThrows)
    \/ FallbackTimer

Spec == Init /\ [][Next]_vars

(***************************************************************************)
(* Properties of the scene manager (specification Spec).                   *)
(***************************************************************************)
Overlap(a, b) ==
    /\ a.start < a.end /\ b.start < b.end
    /\ a.start < b.end /\ b.start < a.end

NonOverlapping(scenes) ==
    \A i, j \in 1..Len(scenes) : i < j => ~Overlap(scenes[i], scenes[j])

\* entry i of the Scene Table contains the time of the last message
Contains(i) ==
    doc.scenes[i].start <= last.t /\ last.t < doc.scenes[i].end

\* entry i is the earliest entry of the table that contains that time
FirstContaining(i) ==
    Contains(i) /\ \A j \in 1..(i - 1) : ~Contains(j)

\* C1: with non-overlapping ranges, after a handled timeupdate(t) the entry
\* with start <= t < end is the active scene and its container is the only
\* visible one; t = start activates the entry, t = end does not match it.
C1_TimePartition ==
    (last.handled /\ NonOverlapping(doc.scenes)) =>
        \A i \in 1..Len(doc.scenes) :
            /\ Contains(i) =>
                  /\ currentScene = doc.scenes[i].id
                  /\ Visible(style) = {i}
            /\ last.t = doc.scenes[i].end => last.match # i

\* a message at the common boundary of two scenes moved the runtime from the
\* first to the second
C1_Witness ==
    /\ last.handled /\ NonOverlapping(doc.scenes)
    /\ Len(doc.scenes) = 2
    /\ doc.scenes[1].start < doc.scenes[1].end
    /\ last.t = doc.scenes[1].end /\ last.t = doc.scenes[2].start
    /\ Contains(2)
    /\ last.before = doc.scenes[1].id
    /\ currentScene = doc.scenes[2].id
    /\ Visible(style) = {2}

\* C2 as stated: a handled timeupdate(t) seeks the stored timeline of every
\* scene S with S.start <= t < S.end to t - S.start.
C2_Original ==
    last.handled =>
        \A i \in 1..Len(doc.scenes) :
            (Contains(i) /\ doc.scenes[i].id \in DOMAIN sceneTimelines) =>
                last.seek = <<doc.scenes[i].id, last.t - doc.scenes[i].start>>

\* C2 amended: a handled timeupdate(t) seeks the stored timeline of the first
\* scene in table order that contains t to exactly t - start, whether or not
\* that scene was already active.
C2_RelativeSeek ==
    last.handled =>
        \A i \in 1..Len(doc.scenes) :
            (FirstContaining(i) /\ doc.scenes[i].id \in DOMAIN sceneTimelines) =>
                /\ last.seek = <<doc.scenes[i].id, last.t - doc.scenes[i].start>>
                /\ ~last.threw =>
                      sceneTimelines[doc.scenes[i].id].time
                          = last.t - doc.scenes[i].start

\* the matched scene was already active and its timeline was seeked to a
\* non-zero offset of a scene that does not start at 0
C2_Witness ==
    /\ last.handled /\ last.match # 0 /\ ~last.threw
    /\ last.before = currentScene
    /\ doc.scenes[last.match].start > 0
    /\ last.seek = <<currentScene, last.t - doc.scenes[last.match].start>>
    /\ last.seek[2] > 0

\* C4: when a factory threw during initialization, every other scene has its
\* timeline stored, and a timeupdate matching another scene seeks it.
C4_InitIsolation ==
    pc = "ready" =>
        \A f \in faulty :
            \A i \in 1..Len(doc.scenes) :
                (i # f /\ doc.scenes[i].id # doc.scenes[f].id) =>
                    /\ doc.scenes[i].id \in DOMAIN sceneTimelines
                    /\ (last.handled /\ last.match = i) => last.seek # <<>>

C8_EveryFactoryOnce ==
    (pc = "ready" /\ get(components, "text_display") = <<TextDisplay>>) =>
        \A i \in (1..Len(doc.scenes)) \ faulty :
            /\ factoryCalls[i] = 1
            /\ doc.scenes[i].id \in DOMAIN sceneTimelines
            /\ sceneTimelines[doc.scenes[i].id].factory = i

\* C9: in a document whose scene ids are distinct, the timeline a scene's
\* factory created animates only elements inside that scene's own container.
C9_ScriptScoped ==
    (/\ pc = "ready"
     /\ \A i, j \in 1..Len(doc.scenes) : i # j => doc.scenes[i].id # doc.scenes[j].id)
    => \A id \in DOMAIN sceneTimelines :
            \A e \in sceneTimelines[id].targets :
                e[1] = sceneTimelines[id].factory

\* the step delivers a timeupdate message to the document
MessageStep == pc' = pc /\ timerPending' = timerPending

\* the step is the startup timer firing
TimerStep == timerPending /\ ~timerPending'

\* the entries of the Scene Table that contain the time of the last message
Containing == {i \in 1..Len(doc.scenes) : Contains(i)}

\* every entry of the Scene Table has a positive length
PositiveRanges == \A i \in 1..Len(doc.scenes) : doc.scenes[i].start < doc.scenes[i].end

\* C11: in a document whose scenes have positive length, when the startup
\* timer fires and no timeupdate has arrived since the document was
\* constructed, the first Scene Table entry is shown; when a timeupdate has
\* been handled before, the timer changes nothing.
C11_StartupTimer ==
    [][(TimerStep /\ PositiveRanges) =>
          /\ (last.t = -1 /\ Len(doc.scenes) > 0) =>
                /\ currentScene' = doc.scenes[1].id
                /\ Visible(style') = {getElementById(doc, doc.scenes[1].id)}
          /\ last.handled => UNCHANGED <<currentScene, style, sceneTimelines>>]_vars

\* C12: after any message history that ends in a handled timeupdate(t) whose
\* seek completed, the active scene, the visible containers and the position
\* of the active timeline are the ones t alone determines: the first entry
\* containing t, its container, and t - start.
C12_TimeDetermines ==
    (last.handled /\ ~last.threw) =>
        \A i \in 1..Len(doc.scenes) :
            FirstContaining(i) =>
                /\ currentScene = doc.scenes[i].id
                /\ Visible(style) = {getElementById(doc, doc.scenes[i].id)}
                /\ doc.scenes[i].id \in DOMAIN sceneTimelines =>
                      sceneTimelines[doc.scenes[i].id].time
                          = last.t - doc.scenes[i].start

\* a backward jump from the second scene, whose timeline keeps its position,
\* to the first scene
C12_Witness ==
    /\ last.handled /\ ~last.threw /\ last.match = 1
    /\ Len(doc.scenes) = 2
    /\ doc.scenes[1].id # doc.scenes[2].id
    /\ doc.scenes[1].start < doc.scenes[2].start
    /\ last.before = doc.scenes[2].id
    /\ currentScene = doc.scenes[1].id
    /\ Visible(style) = {1}
    /\ DOMAIN sceneTimelines = {doc.scenes[1].id, doc.scenes[2].id}
    /\ sceneTimelines[doc.scenes[1].id].time = last.t - doc.scenes[1].start
    /\ sceneTimelines[doc.scenes[2].id].time > 0

\* the scene of the segment that comes first in the segments list among the
\* entries containing the time of the last message
EarliestSegmentScene ==
    LET ids == {doc.scenes[i].id[2] : i \in Containing}
    IN SceneId(Min(ids))

C14_GapHolds ==
    [][(MessageStep /\ last'.t # -1 /\ Containing' = {}) =>
          UNCHANGED <<currentScene, style, sceneTimelines>>]_vars

\* a message in a gap arrived while a scene was active and its timeline was
\* away from 0, and both are as before
C14_Witness ==
    /\ last.handled /\ last.match = 0 /\ Containing = {}
    /\ last.before # <<>>
    /\ currentScene = last.before
    /\ Cardinality(Visible(style)) = 1
    /\ currentScene \in DOMAIN sceneTimelines
    /\ sceneTimelines[currentScene].time > 0

(***************************************************************************)
(* Properties of renderComponentBasedHTML (specification SpecRender).      *)
(***************************************************************************)
\* the k-th selection names a component id that is not registered
Unregistered(k) == get(components, selections[k].componentId) = <<>>

\* the k-th selection names a segment of the segments list
SegmentExists(k) == find(segments, selections[k].segmentId) # <<>>

DistinctSegmentIds ==
    \A j, k \in 1..Len(selections) :
        j # k => selections[j].segmentId # selections[k].segmentId

\* C3: with the fallback text_display registered, a selection with an
\* unregistered componentId and an existing segment yields a scene whose
\* displayed text is the segment's text.
C3_FallbackTotality ==
    (pc = "rendered" /\ get(components, "text_display") = <<TextDisplay>>) =>
        \A k \in 1..Len(selections) :
            (Unregistered(k) /\ SegmentExists(k)) =>
                \E c \in 1..Len(doc.containers) :
                    /\ doc.containers[c].selection = k
                    /\ doc.containers[c].html.text
                          = find(segments, selections[k].segmentId)[1].text

\* C6: scene ids of the Scene Table, container ids and factory names are
\* pairwise distinct.
C6_UniqueSceneIds ==
    pc = "rendered" =>
        /\ \A i, j \in 1..Len(doc.scenes) :
              i # j => doc.scenes[i].id # doc.scenes[j].id
        /\ \A i, j \in 1..Len(doc.containers) :
              i # j => doc.containers[i].id # doc.containers[j].id
        /\ \A i, j \in 1..Len(doc.factories) :
              i # j => doc.factories[i].name # doc.factories[j].name

\* C7 as stated: N selections with pairwise distinct segment ids give N
\* Scene Table entries and N containers.
C7_Original ==
    (pc = "rendered" /\ DistinctSegmentIds) =>
        /\ Len(doc.scenes) = Len(selections)
        /\ Len(doc.containers) = Len(selections)

\* C7 amended: N selections with pairwise distinct segment ids, each naming a
\* segment of the segments list and each resolving to a component (its own id
\* or the fallback text_display is registered), give exactly N Scene Table
\* entries and N containers.
C7_SceneCount ==
    (/\ pc = "rendered"
     /\ DistinctSegmentIds
     /\ \A k \in 1..Len(selections) :
           /\ SegmentExists(k)
           /\ ~Unregistered(k) \/ get(components, "text_display") # <<>>)
    => /\ Len(doc.scenes) = Len(selections)
       /\ Len(doc.containers) = Len(selections)

\* two selections on distinct existing segments, one of them through the
\* fallback, gave two scenes
C7_Witness ==
    /\ pc = "rendered" /\ DistinctSegmentIds
    /\ Len(selections) = 2
    /\ \A k \in 1..2 : SegmentExists(k)
    /\ Unregistered(1) /\ ~Unregistered(2)
    /\ get(components, "text_display") # <<>>
    /\ Len(doc.scenes) = 2 /\ Len(doc.containers) = 2

\* C10: every duration passed to component.render is strictly positive.
C10_PositiveDuration ==
    pc = "rendered" =>
        \A c \in 1..Len(renderCalls) : renderCalls[c].duration > 0

(***************************************************************************)
(* ReelPlayer: the host of the merged document.  It owns the video clock,  *)
(* the background audio and the iframe, and posts messages to the iframe's *)
(* window.  Positions are in units of 0.2 s.  Every handler runs to        *)
(* completion; the dispatch of a posted message is a step of its own.  The *)
(* play, pause and ended events of the video are dispatched before any     *)
(* other task, so their handlers run with the step that raises them.  The  *)
(* document's listener has a branch for timeupdate messages only; messages *)
(* of the other types are posted and dispatched without any effect and are *)
(* not kept in the channel.                                                *)
(***************************************************************************)
MaxClock == 2         \* media positions range over 0..MaxClock
MaxQueue == 2         \* at most MaxQueue posted messages await dispatch
MaxReloads == 1       \* iframeKey ranges over 0..MaxReloads
Tolerance == 1        \* if (drift > 0.2), in units of 0.2 s

Clock == 0..MaxClock
Abs(x) == IF x < 0 THEN -x ELSE x

TimeUpdateMsg(time) == [type |-> "timeupdate", time |-> time, stale |-> FALSE]
PlayMsg == [type |-> "play", time |-> 0, stale |-> FALSE]
PauseMsg == [type |-> "pause", time |-> 0, stale |-> FALSE]

\* the document the player is given: two scenes, [0,1) and [1,2)
HostSelections ==
    <<[segmentId |-> 1, componentId |-> "emphasis", params |-> NoParams],
      [segmentId |-> 2, componentId |-> "emphasis", params |-> NoParams]>>
HostSegments ==
    <<[id |-> 1, startTime |-> 0, endTime |-> 1, text |-> "Hi"],
      [id |-> 2, startTime |-> 1, endTime |-> 2, text |-> "Hi"]>>
HostDoc == renderComponentBasedHTML(HostSelections, HostSegments,
                                    <<EmphasisComponent>>, NoSettings)

\* what a handler did: the clock it read and the messages it posted
Handled(name, posted) ==
    [handler |-> name, time |-> video.currentTime, paused |-> video.paused,
     posted |-> posted, audioPlaying |-> FALSE, resynced |-> FALSE,
     sceneBefore |-> <<>>]

\* postMessageToIframe for each message of a handler, in order
post(messages) ==
    LET timeupdates == SelectSeq(messages, LAMBDA m : m.type = "timeupdate")
    IN /\ Len(channel) + Len(timeupdates) <= MaxQueue
       /\ channel' = channel \o timeupdates

\* audio.play(): the promise resolves, or it rejects and nothing changes
play(a, resolves) == IF resolves THEN [a EXCEPT !.paused = FALSE] ELSE a

\* handlePlay, handlePause and handleEnded: what they do to the audio element
handlePlay(a, music, resolves) == IF music THEN play(a, resolves) ELSE a
handlePause(a) == [a EXCEPT !.paused = TRUE]
handleEnded(a) == [currentTime |-> 0, paused |-> TRUE]

\* a handleIframeLoad that only reports playback
handleIframeLoadPostsPlayOnly(v) == IF ~v.paused THEN <<PlayMsg>> ELSE <<>>

\* the messages handleIframeLoad posts
handleIframeLoadPosts(v) ==
    <<TimeUpdateMsg(v.currentTime)>> \o (IF ~v.paused THEN <<PlayMsg>> ELSE <<>>)

\* a sync loop that posts nothing
syncLoopPostsNothing(v) == <<>>

\* the messages one frame of syncLoop posts
syncLoopPosts(v) == IF ~v.paused THEN <<TimeUpdateMsg(v.currentTime)>> ELSE <<>>

\* a drift test that forgets the absolute value
needsResyncSigned(audioTime, time) == audioTime - time > Tolerance

\* const drift = Math.abs(audio.currentTime - time); if (drift > 0.2)
needsResync(audioTime, time) == Abs(audioTime - time) > Tolerance

\* the audio element after one frame of syncLoop
syncLoopAudio(v, a, music, ready, resolves) ==
    IF v.paused THEN a
    ELSE IF music /\ ~a.paused
    THEN IF needsResync(a.currentTime, v.currentTime)
         THEN [a EXCEPT !.currentTime = v.currentTime]
         ELSE a
    ELSE IF music /\ a.paused /\ ready
    THEN play([a EXCEPT !.currentTime = v.currentTime], resolves)
    ELSE a

\* a restart that keeps the iframe's key
restartKeyKept(prev) == prev

\* setIframeKey(prev => prev + 1)
restartKey(prev) == prev + 1

\* the document of a newly mounted iframe, before its script has run
FreshDocument ==
    /\ pc' = "parsed"
    /\ currentScene' = <<>>
    /\ sceneTimelines' = NoTimelines
    /\ style' = [c \in 1..Len(doc.containers) |-> Unstyled]
    /\ factoryCalls' = [f \in 1..Len(doc.factories) |-> 0]
    /\ faulty' = {}
    /\ listeners' = {}
    /\ timerPending' = FALSE
    /\ last' = NoMessage

\* <iframe key={iframeKey}>: a changed key unmounts the iframe and mounts a
\* new one, whose window has no message posted to it yet
remount ==
    IF iframeKey' # iframeKey
    THEN /\ FreshDocument
         /\ channel' = <<>>
         /\ loadPending' = TRUE
         /\ staleApplied' = FALSE
    ELSE UNCHANGED <<pc, runtimeVars, channel, loadPending, staleApplied>>

\* the index of the message the event loop dispatches next: the oldest
NextMessageNewest(q) == Len(q)

NextMessage(q) == 1

\* the queue after message k was dispatched; a message left behind by a newer
\* one is stale
Remaining(q, k) ==
    [i \in 1..(Len(q) - 1) |->
        IF i < k THEN [q[i] EXCEPT !.stale = TRUE] ELSE q[i + 1]]

(***************************************************************************)
(* Specification SpecHost: a mounted ReelPlayer, its media elements and    *)
(* the document in its iframe.                                             *)
(***************************************************************************)
fixedVars == <<components, renderVars, dbVars, sessionVars, bgMusicUrl>>
docVars == <<pc, runtimeVars>>

InitHost ==
    /\ components = <<EmphasisComponent>>
    /\ selections = HostSelections
    /\ segments = HostSegments
    /\ doc = HostDoc
    /\ renderCalls = renderResult(HostSelections, HostSegments, components, NoSettings).calls
    /\ pc = "parsed"
    /\ currentScene = <<>>
    /\ sceneTimelines = NoTimelines
    /\ style = [c \in 1..Len(doc.containers) |-> Unstyled]
    /\ factoryCalls = [f \in 1..Len(doc.factories) |-> 0]
    /\ faulty = {}
    /\ listeners = {}
    /\ timerPending = FALSE
    /\ last = NoMessage
    /\ video = [currentTime |-> 0, paused |-> TRUE]
    /\ audio = [currentTime |-> 0, paused |-> TRUE]
    /\ bgMusicUrl \in BOOLEAN
    /\ events = {"loadedmetadata"}
    /\ iframeKey = 0
    /\ loadPending = TRUE
    /\ channel = <<>>
    /\ hostLast = NoHandler
    /\ staleApplied = FALSE
    /\ DbIdle
    /\ SessionIdle

\* one animation frame of syncLoop
SyncLoop(ready, resolves) ==
    /\ resolves => bgMusicUrl
    /\ post(syncLoopPosts(video))
    /\ audio' = syncLoopAudio(video, audio, bgMusicUrl, ready, resolves)
    /\ hostLast' = [Handled("syncLoop", syncLoopPosts(video)) EXCEPT
                        !.audioPlaying = ~audio.paused,
                        !.resynced = audio'.currentTime # audio.currentTime]
    /\ UNCHANGED <<fixedVars, docVars, video, events, iframeKey, loadPending,
                   staleApplied>>

\* the video's media events
HandleLoadedMetadata ==
    /\ "loadedmetadata" \in events
    /\ events' = events \ {"loadedmetadata"}
    /\ post(<<TimeUpdateMsg(video.currentTime)>>)
    /\ hostLast' = Handled("loadedmetadata", <<TimeUpdateMsg(video.currentTime)>>)
    /\ UNCHANGED <<fixedVars, docVars, video, audio, iframeKey, loadPending,
                   staleApplied>>

\* the video's timeupdate event, which the browser fires at any time
HandleTimeUpdate ==
    /\ IF video.paused
       THEN /\ post(<<TimeUpdateMsg(video.currentTime)>>)
            /\ audio' = [audio EXCEPT !.currentTime = video.currentTime]
            /\ hostLast' = Handled("timeupdate", <<TimeUpdateMsg(video.currentTime)>>)
       ELSE /\ hostLast' = Handled("timeupdate", <<>>)
            /\ UNCHANGED <<channel, audio>>
    /\ UNCHANGED <<fixedVars, docVars, video, events, iframeKey, loadPending,
                   staleApplied>>

HandleSeeked ==
    /\ "seeked" \in events
    /\ events' = events \ {"seeked"}
    /\ post(<<TimeUpdateMsg(video.currentTime)>>)
    /\ audio' = [audio EXCEPT !.currentTime = video.currentTime]
    /\ hostLast' = Handled("seeked", <<TimeUpdateMsg(video.currentTime)>>)
    /\ UNCHANGED <<fixedVars, docVars, video, iframeKey, loadPending, staleApplied>>

\* the iframe's load event, fired once its document's script has run
HandleIframeLoad ==
    /\ loadPending
    /\ pc = "ready"
    /\ loadPending' = FALSE
    /\ post(handleIframeLoadPosts(video))
    /\ hostLast' = Handled("iframeLoad", handleIframeLoadPosts(video))
    /\ UNCHANGED <<fixedVars, docVars, video, audio, events, iframeKey, staleApplied>>

\* videoRef.current.currentTime = 0; videoRef.current.play()
playFromStart ==
    /\ video' = [currentTime |-> 0, paused |-> FALSE]
    /\ events' = events \cup {"seeked"}

\* the restart button; a paused video raises play, which handlePlay handles
Restart(resolves) ==
    /\ iframeKey < MaxReloads
    /\ resolves => bgMusicUrl
    /\ playFromStart
    /\ iframeKey' = restartKey(iframeKey)
    /\ remount
    /\ audio' = play([audio EXCEPT !.currentTime = 0], resolves)
    /\ hostLast' = [Handled("restart", <<>>) EXCEPT
                        !.time = 0, !.paused = FALSE, !.sceneBefore = currentScene]
    /\ UNCHANGED fixedVars

\* the end of startRecording, once the recorder runs
StartRecording(resolves) ==
    /\ iframeKey < MaxReloads
    /\ resolves => bgMusicUrl
    /\ playFromStart
    /\ iframeKey' = iframeKey + 1
    /\ remount
    /\ audio' = IF video.paused THEN handlePlay(audio, bgMusicUrl, resolves) ELSE audio
    /\ hostLast' = [Handled("startRecording", <<>>) EXCEPT !.time = 0, !.paused = FALSE]
    /\ UNCHANGED fixedVars

\* the play / pause button, with handlePlay or handlePause; play() on a video
\* that has ended seeks to the start
TogglePlay(resolves) ==
    /\ resolves => bgMusicUrl /\ video.paused
    /\ IF video.paused
       THEN /\ IF video.currentTime = MaxClock
               THEN /\ video' = [currentTime |-> 0, paused |-> FALSE]
                    /\ events' = events \cup {"seeked"}
               ELSE /\ video' = [video EXCEPT !.paused = FALSE]
                    /\ UNCHANGED events
            /\ audio' = handlePlay(audio, bgMusicUrl, resolves)
            /\ hostLast' = Handled("togglePlay", <<PlayMsg>>)
       ELSE /\ video' = [video EXCEPT !.paused = TRUE]
            /\ audio' = handlePause(audio)
            /\ hostLast' = Handled("togglePlay", <<PauseMsg>>)
            /\ UNCHANGED events
    /\ UNCHANGED <<fixedVars, docVars, iframeKey, loadPending, channel, staleApplied>>

\* the video plays; at its end it pauses, with handlePause and handleEnded
VideoPlays ==
    /\ ~video.paused
    /\ IF video.currentTime < MaxClock
       THEN /\ video' = [video EXCEPT !.currentTime = @ + 1]
            /\ UNCHANGED audio
       ELSE /\ video' = [video EXCEPT !.paused = TRUE]
            /\ audio' = handleEnded(handlePause(audio))
    /\ hostLast' = NoHandler
    /\ UNCHANGED <<fixedVars, docVars, events, iframeKey, loadPending, channel,
                   staleApplied>>

\* <audio loop>
AudioPlays ==
    /\ ~audio.paused
    /\ audio' = [audio EXCEPT !.currentTime = IF @ < MaxClock THEN @ + 1 ELSE 0]
    /\ hostLast' = NoHandler
    /\ UNCHANGED <<fixedVars, docVars, video, events, iframeKey, loadPending, channel,
                   staleApplied>>

\* the iframe's document: its script runs
FrameScript ==
    /\ pc = "parsed"
    /\ scriptBody({})
    /\ hostLast' = NoHandler
    /\ UNCHANGED <<fixedVars, video, audio, events, iframeKey, loadPending, channel,
                   staleApplied>>

\* the event loop dispatches a posted message to the iframe's window
Dispatch ==
    /\ channel # <<>>
    /\ LET k == NextMessage(channel)
           message == channel[k]
       IN /\ channel' = Remaining(channel, k)
          /\ IF message.type = "timeupdate"
             THEN /\ onMessage(message.time, FALSE)
                  /\ staleApplied' =
                        (staleApplied \/ (message.stale /\ "message" \in listeners))
             ELSE UNCHANGED <<docVars, staleApplied>>
    /\ hostLast' = NoHandler
    /\ UNCHANGED <<fixedVars, video, audio, events, iframeKey, loadPending>>

\* the iframe's document: its startup timer fires
FrameTimer ==
    /\ pc = "ready"
    /\ timerPending
    /\ onTimeout
    /\ hostLast' = NoHandler
    /\ UNCHANGED <<fixedVars, video, audio, events, iframeKey, loadPending, channel,
                   staleApplied>>

NextHost ==
    \/ \E ready, resolves \in BOOLEAN : SyncLoop(ready, resolves)
    \/ HandleLoadedMetadata
    \/ HandleTimeUpdate
    \/ HandleSeeked
    \/ HandleIframeLoad
    \/ \E resolves \in BOOLEAN : Restart(resolves)
    \/ \E resolves \in BOOLEAN : StartRecording(resolves)
    \/ \E resolves \in BOOLEAN : TogglePlay(resolves)
    \/ VideoPlays
    \/ AudioPlays
    \/ FrameScript
    \/ Dispatch
    \/ FrameTimer

SpecHost == InitHost /\ [][NextHost]_vars

(***************************************************************************)
(* Properties of the player (specification SpecHost).                      *)
(***************************************************************************)
\* the newest message in flight is a timeupdate carrying the video's time
PostedCurrentTime ==
    /\ channel # <<>>
    /\ channel[Len(channel)] = TimeUpdateMsg(video.currentTime)

C16_LoadResend ==
    hostLast.handler = "iframeLoad" =>
        /\ pc = "ready" /\ ~loadPending
        /\ \E i \in 1..Len(hostLast.posted) :
              hostLast.posted[i] = TimeUpdateMsg(video.currentTime)
        /\ PostedCurrentTime

\* the reloaded document fired load while the video stood at a later time
C16_Witness ==
    /\ hostLast.handler = "iframeLoad"
    /\ iframeKey = 1
    /\ video.currentTime > 0
    /\ PostedCurrentTime

\* the iframe holds a document whose script has not run
FreshlyMounted ==
    /\ pc = "parsed"
    /\ currentScene = <<>>
    /\ sceneTimelines = NoTimelines
    /\ \A c \in DOMAIN style : style[c] = Unstyled
    /\ \A f \in DOMAIN factoryCalls : factoryCalls[f] = 0
    /\ listeners = {}
    /\ ~timerPending
    /\ last = NoMessage
    /\ channel = <<>>
    /\ loadPending

\* C17: right after restart() the iframe holds a freshly constructed document
\* with no message in flight to it, and until that document handles its first
\* message it has no active scene other than through its own startup timer
\* and its timelines, once created, stand at 0.
C17_FreshAfterRestart ==
    /\ hostLast.handler = "restart" => FreshlyMounted
    /\ (iframeKey > 0 /\ last = NoMessage) =>
          /\ currentScene # <<>> => (pc = "ready" /\ ~timerPending)
          /\ \A id \in DOMAIN sceneTimelines : sceneTimelines[id].time = 0
          /\ \A f \in DOMAIN factoryCalls : factoryCalls[f] <= 1

\* restart() was pressed while a scene was active
C17_Witness ==
    /\ hostLast.handler = "restart"
    /\ hostLast.sceneBefore # <<>>
    /\ FreshlyMounted
    /\ iframeKey = 1
    /\ video = [currentTime |-> 0, paused |-> FALSE]

\* C18: a frame of the sync loop that finds the video playing posts exactly
\* one timeupdate carrying video.currentTime, and handleSeeked posts exactly
\* one, whether the video is paused or playing.
C18_FrameAndSeekPost ==
    ((hostLast.handler = "syncLoop" /\ ~hostLast.paused) \/ hostLast.handler = "seeked")
        => /\ hostLast.posted = <<TimeUpdateMsg(video.currentTime)>>
           /\ PostedCurrentTime

\* a seeked event was handled while the video was paused
C18_Witness ==
    /\ hostLast.handler = "seeked"
    /\ hostLast.paused /\ video.paused
    /\ hostLast.posted = <<TimeUpdateMsg(video.currentTime)>>
    /\ PostedCurrentTime

\* C19: after a frame of the sync loop that found the video and the
\* background audio playing, the audio is within the tolerance of the video,
\* and no handler that reads the video clock changes it.
C19_DriftBounded ==
    /\ (hostLast.handler = "syncLoop" /\ ~hostLast.paused /\ hostLast.audioPlaying) =>
          Abs(audio.currentTime - video.currentTime) <= Tolerance
    /\ hostLast.handler \in {"syncLoop", "seeked", "timeupdate", "loadedmetadata",
                             "iframeLoad"} =>
          video.currentTime = hostLast.time

\* a frame found the audio behind the video by more than the tolerance and
\* set it to the video's time
C19_Witness ==
    /\ hostLast.handler = "syncLoop" /\ ~hostLast.paused /\ hostLast.audioPlaying
    /\ hostLast.resynced
    /\ video.currentTime = MaxClock
    /\ audio.currentTime = video.currentTime

(***************************************************************************)
(* The database module: the generated_content table, saveGeneratedContent  *)
(* and getGeneratedContent.  db.run queues a statement and calls back when *)
(* it has run; saveGeneratedContent issues its INSERT from the callback of *)
(* its DELETE, so statements of other calls can run in between.            *)
(***************************************************************************)
MaxSaves == 2         \* at most MaxSaves calls of saveGeneratedContent
MaxTick == 1          \* CURRENT_TIMESTAMP ranges over 0..MaxTick
MaxProject == 2       \* project ids range over 1..MaxProject

Projects == 1..MaxProject

\* html_content of the row a project has before the first call
Previous == 0

\* the rows of a project, as indexes of the table
RowsOf(rs, projectId) == {i \in 1..Len(rs) : rs[i].project_id = projectId}

\* DELETE FROM generated_content WHERE project_id = ?
deleteRows(rs, projectId) == SelectSeq(rs, LAMBDA r : r.project_id # projectId)

\* INSERT INTO generated_content (project_id, html_content, ...) VALUES (...)
insertRow(rs, projectId, htmlContent, now) ==
    Append(rs, [project_id |-> projectId, html_content |-> htmlContent,
                created_at |-> now])

\* SELECT * ... WHERE project_id = ? ORDER BY created_at DESC LIMIT 1: the
\* rows the query may return; <<>> is no row.  Rows with equal created_at
\* are in no defined order.
getGeneratedContent(rs, projectId) ==
    LET mine == RowsOf(rs, projectId)
    IN IF mine = {} THEN {<<>>}
       ELSE {<<rs[i].html_content>> :
                i \in {j \in mine : \A k \in mine : rs[k].created_at <= rs[j].created_at}}

(***************************************************************************)
(* Specification SpecStore: projects with stored content, concurrent saves *)
(* and reads.                                                              *)
(***************************************************************************)
idleVars == <<components, pc, renderVars, runtimeVars, playerVars, sessionVars>>

InitStore ==
    /\ components = <<>>
    /\ pc = "registry"
    /\ selections = <<>>
    /\ segments = <<>>
    /\ doc = NoDoc
    /\ renderCalls = <<>>
    /\ RuntimeIdle
    /\ PlayerIdle
    /\ SessionIdle
    /\ rows = [p \in Projects |->
                  [project_id |-> p, html_content |-> Previous, created_at |-> 0]]
    /\ saves = <<>>
    /\ clock = 0
    /\ got = <<>>

\* saveGeneratedContent(projectId, htmlContent, ...) is called: its DELETE is
\* queued; the content of the n-th call is n
SaveGeneratedContent(projectId) ==
    /\ Len(saves) < MaxSaves
    /\ saves' = Append(saves, [project_id |-> projectId,
                               html_content |-> Len(saves) + 1, step |-> "delete"])
    /\ UNCHANGED <<idleVars, rows, clock, got>>

\* the DELETE of call n runs and its callback queues the INSERT, or it fails
\* and the callback reports the error
DeleteRuns(n, err) ==
    /\ saves[n].step = "delete"
    /\ IF err
       THEN /\ saves' = [saves EXCEPT ![n].step = "failed"]
            /\ UNCHANGED rows
       ELSE /\ rows' = deleteRows(rows, saves[n].project_id)
            /\ saves' = [saves EXCEPT ![n].step = "insert"]
    /\ UNCHANGED <<idleVars, clock, got>>

\* the INSERT of call n runs and its callback reports the outcome
InsertRuns(n, err) ==
    /\ saves[n].step = "insert"
    /\ IF err
       THEN /\ saves' = [saves EXCEPT ![n].step = "failed"]
            /\ UNCHANGED rows
       ELSE /\ rows' = insertRow(rows, saves[n].project_id, saves[n].html_content, clock)
            /\ saves' = [saves EXCEPT ![n].step = "done"]
    /\ UNCHANGED <<idleVars, clock, got>>

\* getGeneratedContent(projectId, callback)
GetGeneratedContent(projectId) ==
    /\ \E row \in getGeneratedContent(rows, projectId) :
          got' = <<[project_id |-> projectId, row |-> row]>>
    /\ UNCHANGED <<idleVars, rows, saves, clock>>

\* a second passes
Tick ==
    /\ clock < MaxTick
    /\ clock' = clock + 1
    /\ UNCHANGED <<idleVars, rows, saves, got>>

NextStore ==
    \/ \E projectId \in Projects : SaveGeneratedContent(projectId)
    \/ \E n \in 1..Len(saves), err \in BOOLEAN : DeleteRuns(n, err)
    \/ \E n \in 1..Len(saves), err \in BOOLEAN : InsertRuns(n, err)
    \/ \E projectId \in Projects : GetGeneratedContent(projectId)
    \/ Tick

SpecStore == InitStore /\ [][NextStore]_vars

(***************************************************************************)
(* Properties of the database module (specification SpecStore).            *)
(***************************************************************************)
\* no call of saveGeneratedContent is under way
Settled == \A n \in 1..Len(saves) : saves[n].step \in {"done", "failed"}

\* the contents of the calls for a project whose INSERT succeeded
Saved(projectId) ==
    {saves[n].html_content : n \in {k \in 1..Len(saves) :
        saves[k].project_id = projectId /\ saves[k].step = "done"}}

\* the content of the newest successful save of a project, else the previous
Newest(projectId) ==
    IF Saved(projectId) = {} THEN Previous
    ELSE CHOOSE c \in Saved(projectId) : \A d \in Saved(projectId) : d <= c

\* C20: once every call of saveGeneratedContent has called back, also after
\* interleaved calls and after a call whose INSERT failed, each project has
\* exactly one stored row, holding the previous content or the content of
\* its newest successful save, and getGeneratedContent returns that content.
C20_AtomicReplace ==
    Settled =>
        \A p \in Projects :
            /\ Cardinality(RowsOf(rows, p)) = 1
            /\ \A i \in RowsOf(rows, p) :
                  rows[i].html_content \in {Previous, Newest(p)}
            /\ getGeneratedContent(rows, p) = {<<Newest(p)>>}

(***************************************************************************)
(* App: the top-level component.  An async handler is suspended at every   *)
(* await and other handlers run in between; a call is a record of the      *)
(* handler and of the await it is suspended at.  A state update of a       *)
(* dependency of the end-screen effect makes the effect due, and React     *)
(* runs a due effect before it handles the next event.  Times are in units *)
(* of 2 s.                                                                 *)
(***************************************************************************)
MaxCalls == 2         \* at most MaxCalls calls of async handlers
MaxEnd == 3           \* subtitle end times range over 1..MaxEnd
EndScreenLead == 2    \* Math.max(0, videoDuration - 4), in units of 2 s

Manual == [kind |-> "manual", by |-> 0]
Fallback == [kind |-> "fallback", by |-> 0]
Loaded == [kind |-> "loaded", by |-> 0]
Edited == [kind |-> "edited", by |-> 0]
\* the content the generation awaited by call c resolved with
Generated(c) == [kind |-> "generated", by |-> c]

\* SRTItem[] arguments: the endTime of each item
SrtInputs == {<<>>} \cup {<<e>> : e \in 1..MaxEnd}

\* result.closingSegmentStartTime: undefined, or the start of a segment
Closings(srtItems) ==
    {Undefined} \cup (IF srtItems = <<>> THEN {} ELSE 0..(srtItems[Len(srtItems)] - 1))

Max(a, b) == IF a > b THEN a ELSE b

InFlight == {c \in 1..Len(asyncCalls) : asyncCalls[c].stage \notin {"done", "failed"}}

Awaiting(c, handler, stage) ==
    /\ c \in 1..Len(asyncCalls)
    /\ asyncCalls[c].handler = handler
    /\ asyncCalls[c].stage = stage

start(handler, stage, srtItems) ==
    /\ Len(asyncCalls) < MaxCalls
    /\ asyncCalls' = Append(asyncCalls,
                            [handler |-> handler, stage |-> stage,
                             srtItems |-> srtItems, closing |-> Undefined])

resume(c, stage) == asyncCalls' = [asyncCalls EXCEPT ![c].stage = stage]

finish(c, stage) ==
    asyncCalls' = [asyncCalls EXCEPT ![c].stage = stage, ![c].srtItems = <<>>]

\* setAppState(next): the effect depends on appState
setAppState(next) ==
    /\ appState' = next
    /\ effectDue' = (effectDue \/ appState # next)

\* the catch of the generation in handleGenerateFromProject, were it to fall
\* back to the sample as handleEnterStudio does
catchGenerationFallback(content, state) ==
    [generatedContent |-> Fallback, appState |-> "EDITOR", error |-> "message"]

\* catch (err) { setError(err.message || ...); alert(...) }
catchGeneration(content, state) ==
    [generatedContent |-> content, appState |-> state, error |-> "message"]

\* if (isManualModeRef.current), were the ref never set
inManualModeNever(ref) == FALSE

\* if (isManualModeRef.current)
inManualMode(ref) == ref

\* const endScreenStart = Math.max(0, videoDuration - 4)
endScreenStart(current, items) == Max(0, items[Len(items)] - EndScreenLead)

appFixed == <<components, pc, renderVars, runtimeVars, playerVars, dbVars, unitVars,
              apiKey>>

(***************************************************************************)
(* Specification SpecApp: the App component with a project selected or     *)
(* with the generating screen mounted.                                     *)
(***************************************************************************)
InitApp ==
    /\ components = <<>>
    /\ pc = "registry"
    /\ selections = <<>>
    /\ segments = <<>>
    /\ doc = NoDoc
    /\ renderCalls = <<>>
    /\ RuntimeIdle
    /\ PlayerIdle
    /\ DbIdle
    /\ UnitIdle
    /\ appState \in {"PROJECTS", "GENERATING"}
    /\ apiKey \in BOOLEAN
    /\ srtData \in (IF appState = "GENERATING" THEN SrtInputs ELSE {<<>>})
    /\ generatedContent = Null
    /\ pendingContent = Null
    /\ showReplaceDialog = FALSE
    /\ isManualModeRef = FALSE
    /\ error = "null"
    /\ endScreenStartTime = Undefined
    /\ effectDue = TRUE
    /\ asyncCalls = <<>>
    /\ persisted = {}
    /\ overtaken = {}
    /\ confirmed = {}

\* the end-screen effect, after the render that changed srtData or appState
RunEffect ==
    /\ effectDue
    /\ effectDue' = FALSE
    /\ endScreenStartTime' =
          IF Len(srtData) > 0 /\ appState = "EDITOR"
          THEN endScreenStart(endScreenStartTime, srtData)
          ELSE endScreenStartTime
    /\ UNCHANGED <<appFixed, appState, srtData, generatedContent, pendingContent,
                   showReplaceDialog, isManualModeRef, error, asyncCalls, persisted,
                   overtaken, confirmed>>

HandleSelectProject ==
    /\ ~effectDue
    /\ appState = "PROJECTS"
    /\ setAppState("PROJECT_DETAIL")
    /\ UNCHANGED <<appFixed, srtData, generatedContent, pendingContent,
                   showReplaceDialog, isManualModeRef, error, endScreenStartTime,
                   asyncCalls, persisted, overtaken, confirmed>>

HandleBackToProjects ==
    /\ ~effectDue
    /\ appState \in {"PROJECT_DETAIL", "GENERATING"}
    /\ appState' = "PROJECTS"
    /\ generatedContent' = Null
    /\ srtData' = <<>>
    /\ effectDue' = TRUE
    /\ pendingContent' = Null
    /\ showReplaceDialog' = FALSE
    /\ UNCHANGED <<appFixed, isManualModeRef, error, endScreenStartTime, asyncCalls,
                   persisted, overtaken, confirmed>>

\* handleGenerateFromProject up to its first await
HandleGenerateFromProject(srtItems) ==
    /\ ~effectDue
    /\ appState = "PROJECT_DETAIL"
    /\ start("handleGenerateFromProject", "fetch", srtItems)
    /\ UNCHANGED <<appFixed, appState, srtData, generatedContent, pendingContent,
                   showReplaceDialog, isManualModeRef, error, endScreenStartTime,
                   effectDue, persisted, overtaken, confirmed>>

\* the project and its video are fetched, or the outer catch runs
ProjectFetched(c, ok) ==
    /\ ~effectDue
    /\ Awaiting(c, "handleGenerateFromProject", "fetch")
    /\ IF ok
       THEN /\ srtData' = asyncCalls[c].srtItems
            /\ effectDue' = TRUE
            /\ error' = "null"
            /\ resume(c, "optimize")
       ELSE /\ finish(c, "failed")
            /\ UNCHANGED <<srtData, effectDue, error>>
    /\ UNCHANGED <<appFixed, appState, generatedContent, pendingContent,
                   showReplaceDialog, isManualModeRef, endScreenStartTime, persisted,
                   overtaken, confirmed>>

\* optimizeSegmentsForAnimation settles
SegmentsOptimized(c, ok) ==
    /\ ~effectDue
    /\ Awaiting(c, "handleGenerateFromProject", "optimize")
    /\ IF ok
       THEN /\ resume(c, "html")
            /\ UNCHANGED <<generatedContent, appState, effectDue, error>>
       ELSE /\ finish(c, "failed")
            /\ generatedContent' = catchGeneration(generatedContent, appState).generatedContent
            /\ setAppState(catchGeneration(generatedContent, appState).appState)
            /\ error' = catchGeneration(generatedContent, appState).error
    /\ UNCHANGED <<appFixed, srtData, pendingContent, showReplaceDialog,
                   isManualModeRef, endScreenStartTime, persisted, overtaken,
                   confirmed>>

\* generateHTMLWithComponents settles; on success the content is set and
\* saveGeneratedContent is called
HtmlGenerated(c, ok, closing) ==
    /\ ~effectDue
    /\ Awaiting(c, "handleGenerateFromProject", "html")
    /\ IF ok
       THEN /\ closing \in Closings(asyncCalls[c].srtItems)
            /\ endScreenStartTime' =
                  IF closing # Undefined THEN closing ELSE endScreenStartTime
            /\ generatedContent' = Generated(c)
            /\ persisted' = persisted \cup {[by |-> c, call |-> "saveGeneratedContent"]}
            /\ asyncCalls' = [asyncCalls EXCEPT ![c].stage = "saveContent",
                                                ![c].srtItems = <<>>,
                                                ![c].closing = closing]
            /\ UNCHANGED <<appState, effectDue, error>>
       ELSE /\ closing = Undefined
            /\ finish(c, "failed")
            /\ generatedContent' = catchGeneration(generatedContent, appState).generatedContent
            /\ setAppState(catchGeneration(generatedContent, appState).appState)
            /\ error' = catchGeneration(generatedContent, appState).error
            /\ UNCHANGED <<endScreenStartTime, persisted>>
    /\ UNCHANGED <<appFixed, srtData, pendingContent, showReplaceDialog,
                   isManualModeRef, overtaken, confirmed>>

\* saveGeneratedContent settles (a rejection is caught and logged);
\* saveAnimationSegments is called
ContentSaved(c) ==
    /\ ~effectDue
    /\ Awaiting(c, "handleGenerateFromProject", "saveContent")
    /\ persisted' = persisted \cup {[by |-> c, call |-> "saveAnimationSegments"]}
    /\ resume(c, "saveSegments")
    /\ UNCHANGED <<appFixed, appState, srtData, generatedContent, pendingContent,
                   showReplaceDialog, isManualModeRef, error, endScreenStartTime,
                   effectDue, overtaken, confirmed>>

\* saveAnimationSegments settles (a rejection is caught and logged);
\* setAppState(AppState.EDITOR)
SegmentsSaved(c) ==
    /\ ~effectDue
    /\ Awaiting(c, "handleGenerateFromProject", "saveSegments")
    /\ setAppState("EDITOR")
    /\ finish(c, "done")
    /\ UNCHANGED <<appFixed, srtData, generatedContent, pendingContent,
                   showReplaceDialog, isManualModeRef, error, endScreenStartTime,
                   persisted, overtaken, confirmed>>

\* handleOpenEditorFromProject up to its first await
HandleOpenEditorFromProject ==
    /\ ~effectDue
    /\ appState = "PROJECT_DETAIL"
    /\ start("handleOpenEditorFromProject", "fetch", <<>>)
    /\ UNCHANGED <<appFixed, appState, srtData, generatedContent, pendingContent,
                   showReplaceDialog, isManualModeRef, error, endScreenStartTime,
                   effectDue, persisted, overtaken, confirmed>>

\* the project is fetched with its stored subtitles and content, or the catch runs
ProjectOpened(c, ok, stored, hasContent) ==
    /\ ~effectDue
    /\ Awaiting(c, "handleOpenEditorFromProject", "fetch")
    /\ IF ok
       THEN /\ srtData' = stored
            /\ generatedContent' = IF hasContent THEN Loaded ELSE Manual
            /\ appState' = "EDITOR"
            /\ effectDue' = TRUE
            /\ finish(c, "done")
       ELSE /\ stored = <<>>
            /\ ~hasContent
            /\ finish(c, "failed")
            /\ UNCHANGED <<srtData, generatedContent, appState, effectDue>>
    /\ UNCHANGED <<appFixed, pendingContent, showReplaceDialog, isManualModeRef,
                   error, endScreenStartTime, persisted, overtaken, confirmed>>

\* handleManualModeEnter, as a handler and as called by handleEnterStudio
manualModeEnter ==
    /\ isManualModeRef' = TRUE
    /\ generatedContent' = Manual
    /\ appState' = "EDITOR"
    /\ overtaken' = overtaken \cup
                       {c \in InFlight : asyncCalls[c].handler = "handleEnterStudio"}

HandleManualModeEnter ==
    /\ ~effectDue
    /\ appState = "GENERATING"
    /\ manualModeEnter
    /\ effectDue' = TRUE
    /\ UNCHANGED <<appFixed, srtData, pendingContent, showReplaceDialog, error,
                   endScreenStartTime, asyncCalls, persisted, confirmed>>

\* handleEnterStudio up to its await; EXAMPLE_SRT stands in for missing subtitles
HandleEnterStudio ==
    /\ ~effectDue
    /\ appState = "GENERATING"
    /\ srtData' = IF Len(srtData) = 0 THEN <<MaxEnd>> ELSE srtData
    /\ IF ~apiKey
       THEN /\ manualModeEnter
            /\ effectDue' = TRUE
            /\ UNCHANGED <<error, asyncCalls>>
       ELSE /\ start("handleEnterStudio", "generate", <<>>)
            /\ error' = "null"
            /\ isManualModeRef' = FALSE
            /\ effectDue' = (Len(srtData) = 0)
            /\ UNCHANGED <<generatedContent, appState, overtaken>>
    /\ UNCHANGED <<appFixed, pendingContent, showReplaceDialog, endScreenStartTime,
                   persisted, confirmed>>

\* the generateReelContent call of handleEnterStudio settles
StudioGenerated(c, outcome) ==
    /\ ~effectDue
    /\ Awaiting(c, "handleEnterStudio", "generate")
    /\ CASE outcome = "resolved" ->
              /\ finish(c, "done")
              /\ IF inManualMode(isManualModeRef)
                 THEN /\ pendingContent' = Generated(c)
                      /\ showReplaceDialog' = TRUE
                      /\ UNCHANGED <<generatedContent, appState, effectDue>>
                 ELSE /\ generatedContent' = Generated(c)
                      /\ setAppState("EDITOR")
                      /\ UNCHANGED <<pendingContent, showReplaceDialog>>
              /\ UNCHANGED error
         [] outcome = "quota" ->
              /\ finish(c, "failed")
              /\ error' = IF inManualMode(isManualModeRef) THEN error ELSE "message"
              /\ UNCHANGED <<generatedContent, appState, effectDue, pendingContent,
                             showReplaceDialog>>
         [] outcome = "rejected" ->
              /\ finish(c, "failed")
              /\ IF inManualMode(isManualModeRef)
                 THEN UNCHANGED <<generatedContent, appState, effectDue>>
                 ELSE /\ generatedContent' = Fallback
                      /\ setAppState("EDITOR")
              /\ UNCHANGED <<error, pendingContent, showReplaceDialog>>
    /\ UNCHANGED <<appFixed, srtData, isManualModeRef, endScreenStartTime, persisted,
                   overtaken, confirmed>>

HandleConfirmReplace ==
    /\ ~effectDue
    /\ showReplaceDialog
    /\ appState \in {"GENERATING", "EDITOR"}
    /\ generatedContent' = IF pendingContent # Null THEN pendingContent
                           ELSE generatedContent
    /\ confirmed' = IF pendingContent # Null THEN confirmed \cup {pendingContent.by}
                    ELSE confirmed
    /\ showReplaceDialog' = FALSE
    /\ pendingContent' = Null
    /\ UNCHANGED <<appFixed, appState, srtData, isManualModeRef, error,
                   endScreenStartTime, effectDue, asyncCalls, persisted, overtaken>>

HandleCancelReplace ==
    /\ ~effectDue
    /\ showReplaceDialog
    /\ appState \in {"GENERATING", "EDITOR"}
    /\ showReplaceDialog' = FALSE
    /\ pendingContent' = Null
    /\ UNCHANGED <<appFixed, appState, srtData, generatedContent, isManualModeRef,
                   error, endScreenStartTime, effectDue, asyncCalls, persisted,
                   overtaken, confirmed>>

\* handleGenerate (the editor's refine) up to its await
HandleGenerate ==
    /\ ~effectDue
    /\ appState = "EDITOR"
    /\ generatedContent # Null
    /\ Len(srtData) > 0
    /\ IF ~apiKey
       THEN /\ error' = "message"
            /\ UNCHANGED asyncCalls
       ELSE /\ error' = "null"
            /\ start("handleGenerate", "generate", <<>>)
    /\ UNCHANGED <<appFixed, appState, srtData, generatedContent, pendingContent,
                   showReplaceDialog, isManualModeRef, endScreenStartTime, effectDue,
                   persisted, overtaken, confirmed>>

\* the generateReelContent call of handleGenerate settles
Refined(c, ok) ==
    /\ ~effectDue
    /\ Awaiting(c, "handleGenerate", "generate")
    /\ IF ok
       THEN /\ generatedContent' = Generated(c)
            /\ finish(c, "done")
            /\ UNCHANGED error
       ELSE /\ error' = "message"
            /\ finish(c, "failed")
            /\ UNCHANGED generatedContent
    /\ UNCHANGED <<appFixed, appState, srtData, pendingContent, showReplaceDialog,
                   isManualModeRef, endScreenStartTime, effectDue, persisted,
                   overtaken, confirmed>>

\* the editor's onUpdate: setGeneratedContent with an edited document
OnUpdate ==
    /\ ~effectDue
    /\ appState = "EDITOR"
    /\ generatedContent \notin {Null, Edited}
    /\ generatedContent' = Edited
    /\ UNCHANGED <<appFixed, appState, srtData, pendingContent, showReplaceDialog,
                   isManualModeRef, error, endScreenStartTime, effectDue, asyncCalls,
                   persisted, overtaken, confirmed>>

Outcomes == {"resolved", "quota", "rejected"}

NextApp ==
    \/ RunEffect
    \/ HandleSelectProject
    \/ HandleBackToProjects
    \/ \E srtItems \in SrtInputs : HandleGenerateFromProject(srtItems)
    \/ \E c \in InFlight, ok \in BOOLEAN : ProjectFetched(c, ok)
    \/ \E c \in InFlight, ok \in BOOLEAN : SegmentsOptimized(c, ok)
    \/ \E c \in InFlight, ok \in BOOLEAN, closing \in {Undefined} \cup (0..MaxEnd) :
          HtmlGenerated(c, ok, closing)
    \/ \E c \in InFlight : ContentSaved(c)
    \/ \E c \in InFlight : SegmentsSaved(c)
    \/ HandleOpenEditorFromProject
    \/ \E c \in InFlight, ok \in BOOLEAN, stored \in SrtInputs, hasContent \in BOOLEAN :
          ProjectOpened(c, ok, stored, hasContent)
    \/ HandleManualModeEnter
    \/ HandleEnterStudio
    \/ \E c \in InFlight, outcome \in Outcomes : StudioGenerated(c, outcome)
    \/ HandleConfirmReplace
    \/ HandleCancelReplace
    \/ HandleGenerate
    \/ \E c \in InFlight, ok \in BOOLEAN : Refined(c, ok)
    \/ OnUpdate

SpecApp == InitApp /\ [][NextApp]_vars

(***************************************************************************)
(* Properties of the App component (specification SpecApp).                *)
(***************************************************************************)
GenerationOf(c) ==
    /\ c \in 1..Len(asyncCalls)
    /\ asyncCalls[c].handler = "handleGenerateFromProject"

\* this step is the rejection of call c's optimizeSegmentsForAnimation or of
\* its generateHTMLWithComponents
GenerationRejected(c) ==
    /\ GenerationOf(c)
    /\ asyncCalls[c].stage \in {"optimize", "html"}
    /\ asyncCalls'[c].stage = "failed"

\* C21: when optimizeSegmentsForAnimation or the HTML generation that follows
\* it rejects in a handleGenerateFromProject call, the call has emitted no
\* output before the rejection, the rejection leaves generatedContent and the
\* appState as they are and calls neither saveGeneratedContent nor
\* saveAnimationSegments, and the call emits nothing afterwards.
C21_NoOutputOnRejection ==
    [][\A c \in 1..Len(asyncCalls) :
          /\ GenerationRejected(c) =>
                /\ generatedContent # Generated(c)
                /\ ~\E r \in persisted : r.by = c
                /\ generatedContent' = generatedContent
                /\ persisted' = persisted
                /\ appState' = appState
          /\ (GenerationOf(c) /\ asyncCalls[c].stage = "failed") =>
                /\ generatedContent' # Generated(c)
                /\ ~\E r \in persisted' : r.by = c]_vars

\* a lone handleGenerateFromProject call whose project was fetched and whose
\* generation was rejected
C21_Witness ==
    /\ Len(asyncCalls) = 1
    /\ GenerationOf(1)
    /\ asyncCalls[1].stage = "failed"
    /\ error = "message"
    /\ Len(srtData) > 0
    /\ appState = "PROJECT_DETAIL"

\* this step is handleCancelReplace
CancelStep ==
    /\ showReplaceDialog
    /\ ~showReplaceDialog'
    /\ confirmed' = confirmed
    /\ appState' = appState

\* this step settles the generateReelContent call of c
StudioSettles(c, stage) ==
    /\ asyncCalls[c].stage = "generate"
    /\ asyncCalls'[c].stage = stage

\* C28: for a handleEnterStudio call that was in flight when manual mode was
\* entered, a success is held as pendingContent behind the replace dialog and
\* leaves generatedContent alone, its content is generatedContent only after
\* handleConfirmReplace installed it, handleCancelReplace leaves
\* generatedContent unchanged, and a failure sets no error.
C28_LateResultHeld ==
    [][/\ \A c \in overtaken' : generatedContent' = Generated(c) => c \in confirmed'
       /\ \A c \in overtaken :
             /\ StudioSettles(c, "done") =>
                   /\ pendingContent' = Generated(c)
                   /\ showReplaceDialog'
                   /\ generatedContent' = generatedContent
             /\ StudioSettles(c, "failed") =>
                   /\ error' = error
                   /\ generatedContent' = generatedContent
       /\ CancelStep => generatedContent' = generatedContent]_vars

\* the content of an overtaken call is in the editor after a confirmation
C28_Witness ==
    \E c \in overtaken :
        /\ c \in confirmed
        /\ generatedContent = Generated(c)
        /\ appState = "EDITOR"

AppSettled == InFlight = {} /\ ~effectDue

\* C29: once the app has settled in the EDITOR state after a lone
\* handleGenerateFromProject call that succeeded with a detected closing
\* segment, endScreenStartTime is the closingSegmentStartTime it returned.
C29_ClosingKept ==
    (/\ AppSettled
     /\ appState = "EDITOR"
     /\ Len(asyncCalls) = 1
     /\ GenerationOf(1)
     /\ asyncCalls[1].stage = "done"
     /\ asyncCalls[1].closing # Undefined)
        => endScreenStartTime = asyncCalls[1].closing

(***************************************************************************)
(* Specification SpecRegistry: any sequence of ComponentRegistry.register  *)
(* calls, by the library's index, by a component module that registers     *)
(* itself, and by the component generator.                                 *)
(***************************************************************************)
MaxRegistrations == 4 \* at most MaxRegistrations register calls

InitRegistry ==
    /\ components = <<>>
    /\ pc = "registry"
    /\ selections = <<>>
    /\ segments = <<>>
    /\ doc = NoDoc
    /\ renderCalls = <<>>
    /\ RuntimeIdle
    /\ PlayerIdle
    /\ DbIdle
    /\ AppIdle
    /\ UnitIdle

RegisterCall(component) ==
    /\ Len(registrations) < MaxRegistrations
    /\ components' = register(components, component)
    /\ registrations' = Append(registrations, component)
    /\ UNCHANGED <<pc, renderVars, runtimeVars, playerVars, dbVars, appVars,
                   libraryUnit, scopeUnit, mergedUnit, exportUnit>>

NextRegistry == \E component \in Registrable : RegisterCall(component)

SpecRegistry == InitRegistry /\ [][NextRegistry]_vars

(***************************************************************************)
(* Properties of the registry (specification SpecRegistry).                *)
(***************************************************************************)
MaxOf(S) == CHOOSE x \in S : \A y \in S : x >= y

\* the register calls made with this id
RegistrationsOf(id) == {i \in 1..Len(registrations) : registrations[i].id = id}

\* the component most recently registered under id (<<>> if none)
LastRegistered(id) ==
    IF RegistrationsOf(id) = {} THEN <<>>
    ELSE <<registrations[MaxOf(RegistrationsOf(id))]>>

\* C22: after any sequence of register calls get(id) returns the component
\* most recently registered under id (undefined if none), and a register
\* call, on a new id or on one already present, leaves the entries of all
\* other ids unchanged.
C22_LastWins ==
    [][registrations' # registrations =>
          /\ \A id \in RegistrableIds : get(components', id) = LastRegistered(id)'
          /\ \A id \in RegistrableIds \ {registrations'[Len(registrations')].id} :
                get(components', id) = get(components, id)]_vars

\* an id was registered twice with different components, another id is present
C22_Witness ==
    /\ get(components, "emphasis") = <<GeneratedEmphasis>>
    /\ EmphasisComponent \in {registrations[i] : i \in 1..Len(registrations)}
    /\ get(components, "text_display") = <<TextDisplay>>

\* getAll() lists one component per registered id, the current one
OnePerId ==
    /\ \A id \in RegistrableIds :
          Cardinality({i \in 1..Len(getAll(components)) : getAll(components)[i].id = id})
             = IF RegistrationsOf(id) = {} THEN 0 ELSE 1
    /\ \A i \in 1..Len(getAll(components)) :
          <<getAll(components)[i]>> = LastRegistered(getAll(components)[i].id)

\* no component object was handed to register twice
EachRegisteredOnce ==
    \A i, j \in 1..Len(registrations) : i # j => registrations[i] # registrations[j]

\* C23 as stated: getAll() lists one current component per id, in the order of
\* the registrations that stored the current components (shown for call
\* sequences that register every component object once).
C23_Original ==
    EachRegisteredOnce =>
        /\ OnePerId
        /\ \A i, j \in 1..Len(getAll(components)) :
              i < j => MaxOf(RegistrationsOf(getAll(components)[i].id))
                          < MaxOf(RegistrationsOf(getAll(components)[j].id))

\* C23: getAll() lists one current component per id, in the order in which
\* the ids were first registered; registering an id again replaces the
\* component and keeps its position.
C23_FirstRegistrationOrder ==
    /\ OnePerId
    /\ \A i, j \in 1..Len(getAll(components)) :
          i < j => Min(RegistrationsOf(getAll(components)[i].id))
                      < Min(RegistrationsOf(getAll(components)[j].id))

\* an id was registered again after another id was registered
C23_Witness ==
    \E i, j \in 1..Len(getAll(components)) :
        /\ i < j
        /\ MaxOf(RegistrationsOf(getAll(components)[i].id))
              > MaxOf(RegistrationsOf(getAll(components)[j].id))
        /\ getAll(components)[i] # registrations[Min(RegistrationsOf(getAll(components)[i].id))]

(***************************************************************************)
(* Parameters handed to render (specification SpecRender).                 *)
(***************************************************************************)
\* C24: every parameter declared in the paramsSchema of the component a
\* selection is rendered with is a key of the params object passed to render.
C24_DeclaredParamsDefined ==
    pc = "rendered" =>
        \A k \in 1..Len(renderCalls) :
            \A key \in DOMAIN paramsSchema(renderCalls[k].component) :
                key \in DOMAIN renderCalls[k].params

(***************************************************************************)
(* Specification SpecLibrary: the library is registered as its index does, *)
(* and render of one of its components is called repeatedly on one params  *)
(* object and one duration.                                                *)
(***************************************************************************)
MaxRenders == 2       \* at most MaxRenders render calls
MaxDuration == 3      \* durations range over 1..MaxDuration

ArgumentKeys == {"text", "color", "size"}
ArgumentValues == {"", "small"}
ArgumentBags == UNION {[K -> ArgumentValues] : K \in SUBSET ArgumentKeys}

\* TextDisplay registers itself on import; the index registers it again
LibraryRegistry ==
    register(register(register(<<>>, TextDisplay), TextDisplay), EmphasisComponent)

InitLibrary ==
    /\ components = LibraryRegistry
    /\ pc = "registry"
    /\ selections = <<>>
    /\ segments = <<>>
    /\ doc = NoDoc
    /\ renderCalls = <<>>
    /\ RuntimeIdle
    /\ PlayerIdle
    /\ DbIdle
    /\ AppIdle
    /\ registrations = <<TextDisplay, TextDisplay, EmphasisComponent>>
    /\ subject \in {<<c>> : c \in Library}
    /\ argument \in [params : ArgumentBags, duration : 1..MaxDuration]
    /\ returned = <<>>
    /\ ScopeIdle
    /\ MergedIdle
    /\ ExportIdle

\* component.render(params, duration) on the same object and duration
CallRender ==
    /\ Len(returned) < MaxRenders
    /\ returned' = Append(returned,
                          [given |-> argument.params,
                           out |-> render(subject[1], argument.params, argument.duration)])
    /\ argument' = [argument EXCEPT
                       !.params = paramsAfterRender(subject[1], argument.params)]
    /\ UNCHANGED <<components, pc, renderVars, runtimeVars, playerVars, dbVars, appVars,
                   registryUnit, subject, scopeUnit, mergedUnit, exportUnit>>

NextLibrary == CallRender

SpecLibrary == InitLibrary /\ [][NextLibrary]_vars

MaxSelector == 4      \* a selector has at most MaxSelector characters
MaxValue == 4         \* a value has at most MaxValue characters

HexChars == {"a", "0"}
WordChars == {"a", "x", "0"}
Letters == {"a", "x"}
Marks == {".", "#"}

\* `#${sceneId} ` for the first segment
ScopePrefix == "#s1 "

\* (?![0-9a-fA-F]{3,6}\b) fails at the mark text[i]: three to six hex
\* characters follow it and end at a word boundary
HexAhead(text, i) ==
    \E k \in 3..6 :
        /\ i + k <= Len(text)
        /\ \A j \in 1..k : text[i + j] \in HexChars
        /\ (i + k = Len(text) \/ text[i + k + 1] \notin WordChars)

\* styles.replace(/([.#])(?![0-9a-fA-F]{3,6}\b)/g, `#${sceneId} $1`)
RECURSIVE namespaceFrom(_, _)
namespaceFrom(text, i) ==
    IF i > Len(text) THEN <<>>
    ELSE (IF text[i] \in Marks /\ ~HexAhead(text, i)
          THEN <<ScopePrefix, text[i]>> ELSE <<text[i]>>) \o namespaceFrom(text, i + 1)

namespace(text) == namespaceFrom(text, 1)

StringsOver(alphabet, n) == UNION {[1..k -> alphabet] : k \in 0..n}

\* a selector is not empty and every "." and "#" in it starts a class or id name
Selectors ==
    {sel \in StringsOver(Marks \cup Letters, MaxSelector) :
        /\ Len(sel) > 0
        /\ \A i \in 1..Len(sel) :
              sel[i] \in Marks => (i < Len(sel) /\ sel[i + 1] \in Letters)}

\* in a value a "." is a decimal point and a "#" starts a hex colour of
\* three or four digits that ends the value
Values ==
    {val \in StringsOver(Marks \cup HexChars, MaxValue) :
        \A i \in 1..Len(val) :
            /\ val[i] = "." => (i > 1 /\ val[i - 1] = "0" /\ i < Len(val)
                                /\ val[i + 1] = "0")
            /\ val[i] = "#" => (Len(val) - i \in {3, 4}
                                /\ \A j \in (i + 1)..Len(val) : val[j] \in HexChars)}

Rule(sel, val) == sel \o <<"{">> \o val \o <<"}">>

(***************************************************************************)
(* Specification SpecScope: the namespacing is applied to one rule.        *)
(***************************************************************************)
InitScope ==
    /\ components = <<>>
    /\ pc = "registry"
    /\ selections = <<>>
    /\ segments = <<>>
    /\ doc = NoDoc
    /\ renderCalls = <<>>
    /\ RuntimeIdle
    /\ PlayerIdle
    /\ DbIdle
    /\ AppIdle
    /\ RegistryIdle
    /\ LibraryIdle
    /\ MergedIdle
    /\ ExportIdle
    /\ styles \in [selector : Selectors, value : Values]
    /\ namespacedStyles = <<>>

NamespaceStyles ==
    /\ namespacedStyles = <<>>
    /\ namespacedStyles' = namespace(Rule(styles.selector, styles.value))
    /\ UNCHANGED <<components, pc, renderVars, runtimeVars, playerVars, dbVars, appVars,
                   registryUnit, libraryUnit, mergedUnit, exportUnit, styles>>

NextScope == NamespaceStyles

SpecScope == InitScope /\ [][NextScope]_vars

(***************************************************************************)
(* Properties of the style namespacing (specification SpecScope).          *)
(***************************************************************************)
\* the selector with the scene prefix in front of every class and id selector
RECURSIVE scopeSelectors(_, _)
scopeSelectors(sel, i) ==
    IF i > Len(sel) THEN <<>>
    ELSE (IF sel[i] \in Marks THEN <<ScopePrefix, sel[i]>> ELSE <<sel[i]>>)
            \o scopeSelectors(sel, i + 1)

\* C26: the namespaced text of a rule is the rule with the scene prefix in
\* front of every class selector and id selector of its selector, and with
\* its value, hex colours and decimal points included, unchanged.
C26_SelectorsScopedOnly ==
    namespacedStyles # <<>> =>
        namespacedStyles = Rule(scopeSelectors(styles.selector, 1), styles.value)

(***************************************************************************)
(* mergeSegmentHTMLs (src/services/geminiService.ts): the document built   *)
(* from separately generated segments, and that document at run time       *)
(* (specification SpecMerged).  A segment is its start, its end and        *)
(* whether its html carries an inline script; a segment script is the one  *)
(* generateSegmentHTML asks for: a paused timeline named tl and a message  *)
(* listener that seeks it.                                                 *)
(***************************************************************************)
MaxMergedSegments == 2
MaxSegmentEnd == 4

NoScene == 0

SegmentInputs ==
    {segs \in UNION {[1..n -> [startTime : 0..MaxSegmentEnd, endTime : 0..MaxSegmentEnd,
                               script : BOOLEAN]] : n \in 1..MaxMergedSegments} :
        /\ \A i \in 1..Len(segs) : segs[i].startTime < segs[i].endTime
        /\ \A i \in 1..(Len(segs) - 1) : segs[i].endTime <= segs[i + 1].startTime}

\* the names the scene manager script declares at the top level of the document
ManagerDeclared == {"currentScene", "scenes", "showScene"}

\* the segment's script after namespacing, wrapped in a function of its own:
\* the timeline is the local tl_s<index>
namespacedScript(segment, index) ==
    [present |-> segment.script, tl |-> index, start |-> segment.startTime,
     duration |-> segment.endTime - segment.startTime]

mergeSegmentHTMLs(inputs) ==
    [scenes |-> [i \in 1..Len(inputs) |->
                    [id |-> i, start |-> inputs[i].startTime, end |-> inputs[i].endTime]],
     declared |-> ManagerDeclared,
     scripts |-> [i \in 1..Len(inputs) |-> namespacedScript(inputs[i], i)]]

\* the merged document once its script element has run
loadMerged(html) ==
    [currentScene |-> NoScene,
     display |-> [i \in 1..Len(html.scenes) |-> "none"],
     timelines |-> [i \in 1..Len(html.scenes) |->
                       IF html.scripts[i].present THEN 0 ELSE Undefined],
     threw |-> FALSE]

showSceneMerged(run, sceneId) ==
    IF run.currentScene = sceneId THEN run
    ELSE [run EXCEPT !.display = [i \in DOMAIN run.display |->
                                     IF i = sceneId THEN "block" ELSE "none"],
                     !.currentScene = sceneId]

MatchingScenes(html, time) ==
    {i \in 1..Len(html.scenes) : time >= html.scenes[i].start /\ time < html.scenes[i].end}

\* the scene manager's message listener; reading a name no script declared
\* throws a ReferenceError and ends the listener
managerListener(html, run, msg) ==
    IF msg.type # "timeupdate" \/ MatchingScenes(html, msg.time) = {} THEN run
    ELSE LET i == CHOOSE k \in MatchingScenes(html, msg.time) :
                      \A m \in MatchingScenes(html, msg.time) : k <= m
             shown == showSceneMerged(run, html.scenes[i].id)
         IN  IF "sceneTimelines" \notin html.declared
             THEN [shown EXCEPT !.threw = TRUE]
             ELSE shown

\* the message listener of the script of segment i
segmentListener(html, run, msg, i) ==
    LET script == html.scripts[i]
        relative == msg.time - script.start
    IN  IF /\ script.present
           /\ msg.type = "timeupdate"
           /\ relative >= 0
           /\ relative <= script.duration
        THEN [run EXCEPT !.timelines[script.tl] = relative]
        ELSE run

\* the listeners of inputs i, i+1, ... in the order they were added
RECURSIVE segmentListenersFrom(_, _, _, _)
segmentListenersFrom(html, run, msg, i) ==
    IF i > Len(html.scripts) THEN run
    ELSE segmentListenersFrom(html, segmentListener(html, run, msg, i), msg, i + 1)

\* one message event: the manager's listener, then the inputs' listeners
dispatchMerged(html, run, msg) ==
    segmentListenersFrom(html, managerListener(html, [run EXCEPT !.threw = FALSE], msg), msg, 1)

MergedMessages == [type : {"timeupdate", "play"}, time : 0..MaxSegmentEnd]

InitMerged ==
    /\ components = <<>>
    /\ pc = "registry"
    /\ selections = <<>>
    /\ segments = <<>>
    /\ doc = NoDoc
    /\ renderCalls = <<>>
    /\ RuntimeIdle
    /\ PlayerIdle
    /\ DbIdle
    /\ AppIdle
    /\ RegistryIdle
    /\ LibraryIdle
    /\ ScopeIdle
    /\ ExportIdle
    /\ merged \in {mergeSegmentHTMLs(segs) : segs \in SegmentInputs}
    /\ mergedRun = <<>>
    /\ heard = <<>>

LoadMerged ==
    /\ mergedRun = <<>>
    /\ mergedRun' = loadMerged(merged)
    /\ UNCHANGED <<components, pc, renderVars, runtimeVars, playerVars, dbVars, appVars,
                   registryUnit, libraryUnit, scopeUnit, exportUnit, merged, heard>>

PostToMerged(msg) ==
    /\ mergedRun # <<>>
    /\ heard' = msg
    /\ mergedRun' = dispatchMerged(merged, mergedRun, msg)
    /\ UNCHANGED <<components, pc, renderVars, runtimeVars, playerVars, dbVars, appVars,
                   registryUnit, libraryUnit, scopeUnit, exportUnit, merged>>

NextMerged ==
    \/ LoadMerged
    \/ \E msg \in MergedMessages : PostToMerged(msg)

SpecMerged == InitMerged /\ [][NextMerged]_vars

(***************************************************************************)
(* Properties of the merged document (specification SpecMerged).           *)
(***************************************************************************)
\* the last message was a timeupdate inside segment i, whose html has a script
MatchedSegment(i) ==
    /\ heard # <<>>
    /\ heard.type = "timeupdate"
    /\ i \in MatchingScenes(merged, heard.time)
    /\ merged.scripts[i].present

\* after a timeupdate inside segment i, scene s<i> is the one shown and the
\* segment's timeline is at the time relative to the segment's start
ShownAndSought(i) ==
    /\ mergedRun.currentScene = i
    /\ mergedRun.display[i] = "block"
    /\ \A j \in DOMAIN mergedRun.display : j # i => mergedRun.display[j] = "none"
    /\ mergedRun.timelines[i] = heard.time - merged.scenes[i].start

\* C27: after a timeupdate(t) with start_i <= t < end_i, scene s<i> is shown,
\* the timeline of segment i is at t - start_i, and the scene manager's
\* message listener ended without throwing.
C27_MatchShowsAndSeeks ==
    \A i \in 1..MaxMergedSegments :
        (i <= Len(merged.scenes) /\ MatchedSegment(i)) =>
            (ShownAndSought(i) /\ ~mergedRun.threw)

(***************************************************************************)
(* exportCompositeVideo (src/utils/videoCompositor.ts): one call of the    *)
(* async function, suspended at its awaits, with the tasks of the page     *)
(* that run in between: the video advancing and ending, the progress       *)
(* interval, the recorder's dataavailable and stop events and the closing  *)
(* of the AudioContext (specification SpecExport).                         *)
(***************************************************************************)
MaxExportDuration == 2
MaxChunks == 2

\* Math.min((currentTime / duration) * 100, 99), in whole percent
progressOf(currentTime, duration) ==
    IF (currentTime * 100) \div duration < 99 THEN (currentTime * 100) \div duration ELSE 99

\* the catch block: the call ends with a rejected promise
exportFailed == [exported EXCEPT !.promise = "rejected"]

InitExport ==
    /\ components = <<>>
    /\ pc = "registry"
    /\ selections = <<>>
    /\ segments = <<>>
    /\ doc = NoDoc
    /\ renderCalls = <<>>
    /\ RuntimeIdle
    /\ PlayerIdle
    /\ DbIdle
    /\ AppIdle
    /\ RegistryIdle
    /\ LibraryIdle
    /\ ScopeIdle
    /\ MergedIdle
    /\ exportPc = "idle"
    /\ recorder = <<>>
    /\ audioCtx = "null"
    /\ exportClock \in {c \in [currentTime : 0..MaxExportDuration,
                               duration : 1..MaxExportDuration] :
                            c.currentTime <= c.duration}
    /\ exported = [progress |-> Undefined, downloaded |-> FALSE, promise |-> "none"]

exportFixed == <<components, pc, renderVars, runtimeVars, playerVars, dbVars, appVars,
                 registryUnit, libraryUnit, scopeUnit, mergedUnit>>

\* the call up to the await of getDisplayMedia
ExportCompositeVideo(mimeType) ==
    /\ exportPc = "idle"
    /\ IF mimeType
       THEN /\ exportPc' = "getDisplayMedia"
            /\ exported' = [exported EXCEPT !.promise = "pending"]
       ELSE /\ exportPc' = "done"
            /\ exported' = exportFailed
    /\ UNCHANGED <<exportFixed, recorder, audioCtx, exportClock>>

\* getDisplayMedia settles; on a stream: audio capture, the recorder created
\* and started, the video reset and play() called
DisplayMediaSettled(granted, audioCaptured) ==
    /\ exportPc = "getDisplayMedia"
    /\ IF granted
       THEN /\ audioCtx' = IF audioCaptured THEN "running" ELSE "null"
            /\ recorder' = [state |-> "recording", onstop |-> FALSE,
                            stopQueued |-> FALSE, chunks |-> 0]
            /\ exportClock' = [exportClock EXCEPT !.currentTime = 0]
            /\ exportPc' = "play"
            /\ UNCHANGED exported
       ELSE /\ exportPc' = "done"
            /\ exported' = exportFailed
            /\ UNCHANGED <<recorder, audioCtx, exportClock>>
    /\ UNCHANGED exportFixed

\* videoElement.play() settles; fulfilled: the progress interval is set and
\* onended assigned
PlaySettled(ok) ==
    /\ exportPc = "play"
    /\ IF ok
       THEN /\ exportPc' = "ended"
            /\ UNCHANGED exported
       ELSE /\ exportPc' = "done"
            /\ exported' = exportFailed
    /\ UNCHANGED <<exportFixed, recorder, audioCtx, exportClock>>

\* playback advances
VideoAdvances ==
    /\ exportPc = "ended"
    /\ exportClock.currentTime < exportClock.duration
    /\ exportClock' = [exportClock EXCEPT !.currentTime = @ + 1]
    /\ UNCHANGED <<exportFixed, exportPc, recorder, audioCtx, exported>>

\* the progress interval fires
ProgressInterval ==
    /\ exportPc = "ended"
    /\ exported' = [exported EXCEPT
                       !.progress = progressOf(exportClock.currentTime, exportClock.duration)]
    /\ UNCHANGED <<exportFixed, exportPc, recorder, audioCtx, exportClock>>

\* recorder.ondataavailable during recording (timeslice 100 ms)
DataAvailable ==
    /\ recorder # <<>>
    /\ recorder.state = "recording"
    /\ recorder.chunks < MaxChunks
    /\ recorder' = [recorder EXCEPT !.chunks = @ + 1]
    /\ UNCHANGED <<exportFixed, exportPc, audioCtx, exportClock, exported>>

\* the video's ended event: onended clears the interval and resolves, and the
\* call continues to its next await: recorder.stop() queues the recorder's
\* stop event, the tracks are stopped, and with an AudioContext the call
\* awaits its close(); without one it assigns recorder.onstop at once
VideoEnded ==
    /\ exportPc = "ended"
    /\ exportClock.currentTime = exportClock.duration
    /\ IF audioCtx = "running"
       THEN /\ recorder' = [recorder EXCEPT !.state = "inactive", !.stopQueued = TRUE]
            /\ audioCtx' = "closing"
            /\ exportPc' = "close"
       ELSE /\ recorder' = [recorder EXCEPT !.state = "inactive", !.stopQueued = TRUE,
                                            !.onstop = TRUE]
            /\ audioCtx' = audioCtx
            /\ exportPc' = "onstop"
    /\ UNCHANGED <<exportFixed, exportClock, exported>>

\* audioContext.close() is fulfilled: the call continues and assigns
\* recorder.onstop
CloseSettled ==
    /\ exportPc = "close"
    /\ audioCtx' = "closed"
    /\ recorder' = [recorder EXCEPT !.onstop = TRUE]
    /\ exportPc' = "onstop"
    /\ UNCHANGED <<exportFixed, exportClock, exported>>

\* the recorder's stop task: the last dataavailable, then the stop event,
\* which runs the onstop handler if one is assigned at that moment
StopEvent ==
    /\ recorder # <<>>
    /\ recorder.stopQueued
    /\ recorder' = [recorder EXCEPT !.stopQueued = FALSE]
    /\ IF recorder.onstop
       THEN /\ exported' = [progress |-> 100, downloaded |-> TRUE, promise |-> "resolved"]
            /\ exportPc' = "done"
       ELSE UNCHANGED <<exported, exportPc>>
    /\ UNCHANGED <<exportFixed, audioCtx, exportClock>>

NextExport ==
    \/ \E mimeType \in BOOLEAN : ExportCompositeVideo(mimeType)
    \/ \E granted, audioCaptured \in BOOLEAN : DisplayMediaSettled(granted, audioCaptured)
    \/ \E ok \in BOOLEAN : PlaySettled(ok)
    \/ VideoAdvances
    \/ ProgressInterval
    \/ DataAvailable
    \/ VideoEnded
    \/ CloseSettled
    \/ StopEvent

SpecExport == InitExport /\ [][NextExport]_vars

\* queued tasks are run and close() settles
SpecExportFair == SpecExport /\ WF_vars(StopEvent) /\ WF_vars(CloseSettled)

(***************************************************************************)
(* Properties of the export (specification SpecExportFair).                *)
(***************************************************************************)
\* the video's ended event has been handled
ExportEnded == recorder # <<>> /\ recorder.state = "inactive"

ExportResolved == exported.promise = "resolved" /\ exported.downloaded

\* C30: once the exported video has ended, whichever of the recorder's stop
\* event and the settling of audioContext.close() comes first, the onstop
\* handler runs, the download is triggered and the promise resolves.
C30_ExportSettles == ExportEnded ~> ExportResolved

====
